---- MODULE Spec2Model ----
(***************************************************************************)
(* Scan-session state machine of the MRZ scanner.                          *)
(*                                                                         *)
(*   MRZScanner      (src/src/MRZScanner.ts)  the facade: owns the shared  *)
(*                   resources, the isCapturing guard and dispose().       *)
(*   MRZScannerView  (src/unnamed/part_002)   the controller: camera       *)
(*                   lifecycle, result receiver, upload path, the pending  *)
(*                   session promise (currentScanResolver).                *)
(*                                                                         *)
(* JavaScript is single threaded.  Every action below is one run of the    *)
(* event loop: a handler from its start (or from the await it resumes at)  *)
(* to the next await on an engine promise, together with the microtasks    *)
(* that follow it.  The facade's continuation after `await                 *)
(* scannerView.launch()` is a chain of microtasks of the resolving         *)
(* handler; it is kept as an action of its own (FacadeResume) that runs    *)
(* before any other task (Quiescent).                                      *)
(***************************************************************************)
EXTENDS Integers, Sequences, FiniteSets, TLC

\* Number of launch() calls made on the MRZScanner instance.
MaxCalls == 2

Calls == 1..MaxCalls

VARIABLES
    container,      \* config.container: "element", or "missing" (a selector no element matches)
    isCapturing,    \* MRZScanner.isCapturing
    isInitialized,  \* MRZScanner.isInitialized
    scannerView,    \* MRZScanner.scannerView: 0 (null) or the view created by call c
    resources,      \* MRZScanner.resources (SharedResources), shared by reference with the views
    engine,         \* state of the engine objects and of the DOM behind resources
    call,           \* each launch() call on the facade: position and what it delivered
    view,           \* the MRZScannerView created by each accepted call
    promise,        \* the promise made by `new Promise` in MRZScannerView.launch, per view
    launchPc,       \* position of the async executor of that promise
    upload,         \* the uploadImage() in flight (at most one is followed)
    last,           \* what the last handler did: its name, its calls in order, the error it raised
    config,         \* MRZScannerViewConfig: mrzFormatType, showScanGuide, showFormatSelector
    scanModeManager, \* MRZScannerView.scanModeManager: document type -> enabled
    currentScanMode, \* MRZScannerView.currentScanMode
    ui,             \* the controls in the camera view's shadow root: guide, options, toast
    viewport,       \* cameraView.getVisibleRegionOfVideo({ inPixels: true })
    scanRegion,     \* the region last given to cameraEnhancer.setScanRegion
    now             \* new Date(): the year, month (1..12) and day the clock shows

\* The state of the view's controls
uiVars == <<config, scanModeManager, currentScanMode, ui, viewport, scanRegion>>

sessionVars == <<container, isCapturing, isInitialized, scannerView, resources, engine,
                 call, view, promise, launchPc, upload>>

vars == <<container, isCapturing, isInitialized, scannerView, resources, engine,
          call, view, promise, launchPc, upload, last, config, scanModeManager,
          currentScanMode, ui, viewport, scanRegion, now>>

-----------------------------------------------------------------------------
\* Result objects (MRZResult, src/src/index.ts:224-230)

RS_SUCCESS == "RS_SUCCESS"
RS_CANCELLED == "RS_CANCELLED"
RS_FAILED == "RS_FAILED"
StatusCodes == {RS_SUCCESS, RS_CANCELLED, RS_FAILED}

\* `data` of a result: the key is absent, or it is the empty object {}, or it is
\* the record processMRZData built.
MRZDate(year, month, day) == [year |-> year, month |-> month, day |-> day]
NoDate == MRZDate(0, 0, 0)

\* MRZData (index.ts:232-245): invalidFields in the order of the pushes;
\* documentNumber names the field of the parsed item the value came from.
\* documentType names the member of EnumMRZDocumentType.
NoData ==
    [kind |-> "absent", documentType |-> "undefined", invalidFields |-> <<>>,
     documentNumber |-> "undefined", age |-> 0, dateOfBirth |-> NoDate,
     dateOfExpiry |-> NoDate]
EmptyData == [NoData EXCEPT !.kind = "empty"]
MRZData(t) == [NoData EXCEPT !.kind = "mrz", !.documentType = t]

\* status.code, status.message and data; originalImageResult is copied from the
\* captured result and read by nothing in the session, and is left out.
MRZResult(code, message, data) == [code |-> code, message |-> message, data |-> data]

\* null / undefined where a result is expected
NullResult == MRZResult("null", "", NoData)

StatusOnly(code, message) == MRZResult(code, message, NoData)

-----------------------------------------------------------------------------
\* The mapper, as far as a session depends on it (src/src/index.ts:294-311, 313-405)

RecognizedCodeTypes ==
    {"MRTD_TD1_ID", "MRTD_TD2_ID", "MRTD_TD2_VISA", "MRTD_TD2_FRENCH_ID",
     "MRTD_TD3_PASSPORT", "MRTD_TD3_VISA"}

CodeTypes == RecognizedCodeTypes \cup {"MRTD_UNKNOWN"}

\* Fault: a mapper that takes an unrecognized code type for a passport
mapDocumentTypeBestGuess(codeType) ==
    CASE codeType = "MRTD_TD1_ID" -> "TD1"
      [] codeType \in {"MRTD_TD2_ID", "MRTD_TD2_VISA", "MRTD_TD2_FRENCH_ID"} -> "TD2"
      [] OTHER -> "Passport"

\* mapDocumentType: "throw" stands for `throw new Error("Unknown document type")`
mapDocumentType(codeType) ==
    CASE codeType = "MRTD_TD1_ID" -> "TD1"
      [] codeType \in {"MRTD_TD2_ID", "MRTD_TD2_VISA", "MRTD_TD2_FRENCH_ID"} -> "TD2"
      [] codeType \in {"MRTD_TD3_PASSPORT", "MRTD_TD3_VISA"} -> "Passport"
      [] OTHER -> "throw"

\* A captured result: the kinds of its items and the code type of its parsed item.
\* items: "O" original image, "T" text line, "P" parsed result, "X" any other item.
\* failed: the fields of the parsed item whose validation status is VS_FAILED;
\* valued: the document number fields with a non-empty value ("primary" is the
\* field documentNumberField names); birth, expiry: the two-digit strings of the
\* date fields.
Digits(n) == <<n \div 10, n % 10>>

DateFields(year, month, day) == MRZDate(Digits(year), Digits(month), Digits(day))

SessionBirth == DateFields(90, 6, 15)
SessionExpiry == DateFields(30, 1, 31)

Batch(items, codeType) ==
    [items |-> items, codeType |-> codeType, failed |-> {}, valued |-> {"primary"},
     birth |-> SessionBirth, expiry |-> SessionExpiry]

Batches ==
    {Batch({"O"}, "none"), Batch({"O", "X"}, "none"), Batch({"O", "T"}, "none")}
    \cup {Batch({"O", "T", "P"}, ct) : ct \in CodeTypes}
    \cup {Batch({"T", "P"}, ct) : ct \in CodeTypes}

\* result.textLineResultItems is defined
HasTextLine(b) == "T" \in b.items

\* Fault: a mapper that throws when a field of the parsed item failed validation
ProcessThrowsOnInvalid(b) ==
    "P" \notin b.items \/ b.codeType \notin RecognizedCodeTypes \/ b.failed # {}

\* Fault: a mapper that never throws
ProcessNeverThrows(b) == FALSE

\* processMRZData(mrzText, parsedResultItems[0]) throws: there is no parsed item
\* (parsedResult.codeType on undefined) or mapDocumentType throws
ProcessThrows(b) == "P" \notin b.items \/ mapDocumentType(b.codeType) = "throw"

\* isFieldInvalid (index.ts:316-321)
isFieldInvalid(b, fieldName) == fieldName \in b.failed

\* documentNumberField (index.ts:326-329, and 123-124 in the earlier version)
documentNumberField(codeType) ==
    IF mapDocumentType(codeType) = "Passport" /\ codeType = "MRTD_TD3_PASSPORT"
    THEN "passportNumber"
    ELSE "documentCode"

\* Fault: the passport field for every document of type Passport
documentNumberFieldByType(codeType) ==
    IF mapDocumentType(codeType) = "Passport" THEN "passportNumber" ELSE "documentNumber"

documentNumberFieldEarlier(codeType) ==
    IF mapDocumentType(codeType) = "Passport" /\ codeType # "MRTD_TD3_VISA"
    THEN "passportNumber"
    ELSE "documentNumber"

\* parseInt(text, 10) of a string of two digits
parseInt(text) == text[1] * 10 + text[2]

\* Fault: every two-digit year taken for a year of this century
centuryThis(twoDigitYear) == 2000

\* The century the earlier version gives a two-digit year (index.ts:82-86)
century(twoDigitYear) == IF twoDigitYear > now.year % 100 THEN 1900 ELSE 2000

\* parseMRZDate (index.ts:280-286), and with the century (index.ts:82-92)
parseMRZDate(date) == MRZDate(parseInt(date.year), parseInt(date.month), parseInt(date.day))

parseMRZDateEarlier(date) ==
    MRZDate(century(parseInt(date.year)) + parseInt(date.year), parseInt(date.month),
            parseInt(date.day))

\* Fault: a birthday that counts only from the day after
hasBirthdayOccurredAfter(birthDate) ==
    \/ now.month > birthDate.month
    \/ now.month = birthDate.month /\ now.day > birthDate.day

\* hasBirthdayOccurred (index.ts:270-271, 76-77)
hasBirthdayOccurred(birthDate) ==
    \/ now.month > birthDate.month
    \/ now.month = birthDate.month /\ now.day >= birthDate.day

\* Fault: every birth year taken for a year of the last century
calculateAgeLastCentury(birthDate) ==
    now.year - (1900 + birthDate.year) - (IF hasBirthdayOccurred(birthDate) THEN 0 ELSE 1)

\* calculateAge (index.ts:268-278), and on a four-digit year (index.ts:74-80)
calculateAge(birthDate) ==
    LET birthCentury == IF birthDate.year > now.year % 100 THEN 1900 ELSE 2000
        birthYearFull == birthCentury + birthDate.year
    IN now.year - birthYearFull - (IF hasBirthdayOccurred(birthDate) THEN 0 ELSE 1)

calculateAgeEarlier(birthDate) ==
    now.year - birthDate.year - (IF hasBirthdayOccurred(birthDate) THEN 0 ELSE 1)

\* Fault: a date flagged by its first field alone
DateFlagsByFirst(b, dateFields, name) ==
    IF isFieldInvalid(b, dateFields[1]) THEN <<name>> ELSE <<>>

\* The pushes of the two forEach loops over the date fields (index.ts:347-357):
\* one push of `name` for each field of the date that failed
DateFlags(b, dateFields, name) ==
    [i \in 1..Len(SelectSeq(dateFields, LAMBDA f : isFieldInvalid(b, f))) |-> name]

\* Object.keys(fields) (index.ts:359-368, and 156-164 in the earlier version)
FieldKeys == <<"lastName", "firstName", "nationality", "documentNumber", "issuingState", "sex">>
FieldKeysEarlier ==
    <<"firstName", "lastName", "sex", "issuingState", "nationality", "documentNumber">>

\* Fault: every key looked up under its own name
KeyInvalidByName(b, key, docField) == isFieldInvalid(b, key)

\* The switch over the keys (index.ts:370-388): the field named docField is the
\* primary document number field
KeyInvalid(b, key, docField) ==
    CASE key = "firstName" -> isFieldInvalid(b, "secondaryIdentifier")
      [] key = "lastName" -> isFieldInvalid(b, "primaryIdentifier")
      [] key = "documentNumber" ->
             isFieldInvalid(b, docField) \/ isFieldInvalid(b, "longDocumentNumber")
      [] OTHER -> isFieldInvalid(b, key)

\* getFieldValue(documentNumberField) || getFieldValue("longDocumentNumber")
\* (index.ts:363-364): the field the document number is taken from
DocumentNumberOf(b, docField) ==
    IF "primary" \in b.valued THEN docField
    ELSE IF "longDocumentNumber" \in b.valued THEN "longDocumentNumber"
    ELSE "undefined"

\* processMRZData (index.ts:313-405), the version with Age among the invalid
\* fields
processMRZData(b) ==
    LET docField == documentNumberField(b.codeType)
        dateOfBirth == parseMRZDate(b.birth)
        age == calculateAge(dateOfBirth)
    IN [MRZData(mapDocumentType(b.codeType)) EXCEPT
            !.invalidFields =
                DateFlags(b, <<"birthYear", "birthMonth", "birthDay">>, "dateOfBirth")
                \o DateFlags(b, <<"expiryYear", "expiryMonth", "expiryDay">>, "dateOfExpiry")
                \o SelectSeq(FieldKeys, LAMBDA key : KeyInvalid(b, key, docField))
                \o (IF age < 1 THEN <<"age">> ELSE <<>>),
            !.documentNumber = DocumentNumberOf(b, docField),
            !.age = age,
            !.dateOfBirth = dateOfBirth,
            !.dateOfExpiry = parseMRZDate(b.expiry)]

\* processMRZData (index.ts:114-201), the earlier version
processMRZDataEarlier(b) ==
    LET docField == documentNumberFieldEarlier(b.codeType)
        dateOfBirth == parseMRZDateEarlier(b.birth)
    IN [MRZData(mapDocumentType(b.codeType)) EXCEPT
            !.invalidFields =
                DateFlags(b, <<"birthYear", "birthMonth", "birthDay">>, "dateOfBirth")
                \o DateFlags(b, <<"expiryYear", "expiryMonth", "expiryDay">>, "dateOfExpiry")
                \o SelectSeq(FieldKeysEarlier, LAMBDA key : KeyInvalid(b, key, docField)),
            !.documentNumber = DocumentNumberOf(b, docField),
            !.age = calculateAgeEarlier(dateOfBirth),
            !.dateOfBirth = dateOfBirth,
            !.dateOfExpiry = parseMRZDateEarlier(b.expiry)]

-----------------------------------------------------------------------------
\* Shared resources and the engine behind them

\* cameraView, cameraEnhancer, cvRouter: 0 is null, c is the instance made for call c
DisposedResources ==
    [cameraView |-> 0, cameraEnhancer |-> 0, cvRouter |-> 0,
     result |-> NullResult, onResultUpdated |-> FALSE]

\* A template name: the scan mode it was configured for, and whether it is the
\* built-in name or one the application supplied
TemplateName(mode, name) == [mode |-> mode, name |-> name]

NoTemplateName == TemplateName("none", "undefined")

\* templateName is the argument of the router's latest startCapturing or capture
ClosedEngine ==
    [cameraOpen |-> FALSE, capturing |-> FALSE, uiAttached |-> FALSE,
     resizeListener |-> FALSE, resizeTimer |-> FALSE, toastTimer |-> 0,
     receivers |-> 0, templateName |-> NoTemplateName]

\* A view not yet constructed, and the fields of a constructed one
\* (src/unnamed/part_002:45-76); currentScanResolver FALSE is undefined.
\* capturedResultItems and originalImageData are written by the two handlers
\* that receive a captured result and read only by the same run of the handler:
\* the write is recorded among the handler's effects, not kept as a field.
NoView == [exists |-> FALSE, initialized |-> FALSE, initializedDCE |-> FALSE,
           currentScanResolver |-> FALSE]

NewView == [NoView EXCEPT !.exists = TRUE]

\* calls counts the invocations of the promise's resolve function
NoPromise == [state |-> "none", value |-> NullResult, calls |-> 0]
PendingPromise == [state |-> "pending", value |-> NullResult, calls |-> 0]

NoUpload == [pc |-> "none", sess |-> 0]

NoCall == [pc |-> "idle", ret |-> NullResult]

NoBatch == Batch({}, "none")

\* What a handler did: its name, its calls in order and the error it raised; by
\* default for no view, with no captured result, meeting no engine failure.
Did(handler, effects, error) ==
    [handler |-> handler, sess |-> 0, arg |-> NoBatch, docType |-> "none",
     effects |-> effects, error |-> error, failure |-> "none"]

\* ... of the view of call s
Of(s, d) == [d EXCEPT !.sess = s]
\* ... given the captured result b
Given(b, d) == [d EXCEPT !.arg = b]
\* ... called for the document type t
About(t, d) == [d EXCEPT !.docType = t]
\* ... after the engine operation f failed (or processMRZData threw)
Failing(f, d) == [d EXCEPT !.failure = f]

\* The errors a handler can raise
NoError == "none"
ErrInProgress == "Error: Capture session already in progress"
ErrElementNotFound == "Error: Element not found"
ErrResolverUndefined == "TypeError: this.currentScanResolver is not a function"
ErrNullResource == "TypeError: cannot read properties of null"
ErrStartCapturing == "unhandled rejection: startCapturing"

-----------------------------------------------------------------------------
\* Scan mode manager (src/unnamed/part_002:760-806)

\* Length of the longest mrzFormatType array configured.
MaxTypes == 2

\* EnumMRZDocumentType, by the names of its members
DocTypes == {"Passport", "TD1", "TD2"}

\* EnumMRZScanMode, by the names of its members
ScanModes ==
    {"Passport", "TD1", "TD2", "PassportAndTD1", "PassportAndTD2", "TD1AndTD2", "All"}

\* config.mrzFormatType: absent, one document type, or an array of them
FormatAbsent == [kind |-> "absent", types |-> <<>>]
FormatSingle(t) == [kind |-> "single", types |-> <<t>>]
FormatArray(ts) == [kind |-> "array", types |-> ts]

FormatTypes ==
    {FormatAbsent}
    \cup {FormatSingle(t) : t \in DocTypes}
    \cup {FormatArray(ts) : ts \in UNION {[1..n -> DocTypes] : n \in 0..MaxTypes}}

\* The keys of scanModeManager in the order the object literal creates them
\* (part_002:764-768); assigning to an existing key keeps the order.
KeyOrder == <<"Passport", "TD1", "TD2">>

\* Fault: an initialization that never resets the default of all types enabled
initializeScanModeManagerKeepsAll(mrzFormatType) == [t \in DocTypes |-> TRUE]

\* initializeScanModeManager (part_002:760-785)
initializeScanModeManager(mrzFormatType) ==
    LET allEnabled == [t \in DocTypes |-> TRUE]
        allDisabled == [t \in DocTypes |-> FALSE]
        types == mrzFormatType.types
    IN IF \/ mrzFormatType.kind = "absent"
          \/ mrzFormatType.kind = "array" /\ Len(types) = 0
       THEN allEnabled
       ELSE [t \in DocTypes |->
                IF \E i \in DOMAIN types : types[i] = t THEN TRUE ELSE allDisabled[t]]

\* Place of a document type's string value in the order Array.prototype.sort
\* uses (code units).  The values are those of EnumMRZDocumentType, declared in
\* the types module: they sort as Passport, TD1, TD2, the order in which the
\* keys of modeMap are written.
LexRank(t) ==
    CASE t = "Passport" -> 1
      [] t = "TD1" -> 2
      [] t = "TD2" -> 3

RECURSIVE InsertSorted(_, _)
InsertSorted(t, sorted) ==
    IF sorted = <<>> THEN <<t>>
    ELSE IF LexRank(t) <= LexRank(Head(sorted)) THEN <<t>> \o sorted
    ELSE <<Head(sorted)>> \o InsertSorted(t, Tail(sorted))

\* Fault: a sort that leaves the enabled types in descending order
sortDescending(types) == [i \in 1..Len(types) |-> types[Len(types) + 1 - i]]

\* .sort()
RECURSIVE sort(_)
sort(types) ==
    IF types = <<>> THEN <<>> ELSE InsertSorted(Head(types), sort(Tail(types)))

\* modeMap (part_002:794-803); a key of joined names is kept as their sequence
modeMap ==
    (<<"Passport">> :> "Passport")
    @@ (<<"TD1">> :> "TD1")
    @@ (<<"TD2">> :> "TD2")
    @@ (<<"Passport", "TD1">> :> "PassportAndTD1")
    @@ (<<"Passport", "TD2">> :> "PassportAndTD2")
    @@ (<<"TD1", "TD2">> :> "TD1AndTD2")
    @@ (<<"Passport", "TD1", "TD2">> :> "All")
    @@ (<<>> :> "All")

\* Object.entries(manager).filter(enabled).map(type), in key order
EnabledTypes(manager) == SelectSeq(KeyOrder, LAMBDA t : manager[t])

\* getScanMode (part_002:787-806): "undefined" when modeMap has no such key
getScanMode(manager) ==
    LET enabled == sort(EnabledTypes(manager))
    IN IF enabled \in DOMAIN modeMap THEN modeMap[enabled] ELSE "undefined"

\* DEFAULT_TEMPLATE_NAMES: a built-in name for each scan mode
DEFAULT_TEMPLATE_NAMES == [val \in ScanModes |-> TemplateName(val, "default")]

\* What the application can give for a scan mode in utilizedTemplateNames:
\* nothing, the empty string, or a name
UserNames == {"undefined", "", "custom"}

\* No utilizedTemplateNames in the application's configuration
NoUserTemplateNames == [val \in ScanModes |-> "undefined"]

\* baseConfig.utilizedTemplateNames (MRZScanner.ts:223-228): for every value of
\* EnumMRZScanMode, `config.utilizedTemplateNames?.[val] || DEFAULT_TEMPLATE_NAMES[val]`
utilizedTemplateNames(user) ==
    [val \in ScanModes |->
        IF user[val] \in {"undefined", ""}
        THEN DEFAULT_TEMPLATE_NAMES[val]
        ELSE TemplateName(val, user[val])]

\* Fault: the name of the mode "All" whatever the current mode
templateNameAll(cfg, mode) == cfg.utilizedTemplateNames["All"]

\* this.config.utilizedTemplateNames[this.currentScanMode] (part_002:421, 858)
templateName(cfg, mode) == cfg.utilizedTemplateNames[mode]

\* The view's configuration as the facade passes it on (MRZScanner.ts:232-250);
\* showScanGuide and showFormatSelector FALSE stand for `=== false`.
\* userTemplateNames is what the application gave for utilizedTemplateNames.
DefaultConfig ==
    [mrzFormatType |-> FormatAbsent, showScanGuide |-> TRUE, showFormatSelector |-> TRUE,
     userTemplateNames |-> NoUserTemplateNames,
     utilizedTemplateNames |-> utilizedTemplateNames(NoUserTemplateNames)]

\* The controls as the camera view's template shows them, before any handler
\* of the view touched them.
\* guide is the display of the three scan guide elements: "template" is the
\* one the template gives the element, which no handler has set yet.
TemplateUi ==
    [guide |-> [t \in DocTypes |-> "template"], selectorHidden |-> FALSE, hiddenOptions |-> {},
     highlighted |-> FALSE, selected |-> {}, toast |-> "template"]

NoViewport == [width |-> 0, height |-> 0]

\* No scan region set: the whole frame
NoRegion == [left |-> 0, right |-> 100, top |-> 0, bottom |-> 100]

-----------------------------------------------------------------------------
\* Scan region (src/unnamed/part_002:493-569).  The code computes in floating
\* point; the model computes the same quantities exactly, as fractions of
\* integers with a positive denominator.

\* The viewport sides tried: MinSide, MinSide + SideStep, ... (SideCount steps)
MinSide == 40
SideStep == 30
SideCount == 132

Sides == {MinSide + k * SideStep : k \in 0..SideCount}

\* MRZScanGuideRatios (part_002:25-29), each pair in the least unit that makes
\* both numbers whole (85.6 : 53.98 = 4280 : 2699); only width / height is used.
MRZScanGuideRatios(documentType) ==
    CASE documentType = "TD1" -> [width |-> 4280, height |-> 2699]
      [] documentType = "TD2" -> [width |-> 105, height |-> 74]
      [] documentType = "Passport" -> [width |-> 125, height |-> 88]

\* const bottomMarginPx = 5 * 16 (part_002:514)
bottomMarginPx == 5 * 16

Frac(n, d) == [num |-> n, den |-> d]

\* f > g
FracGreater(f, g) == f.num * g.den > g.num * f.den

\* f <= g
FracAtMost(f, g) == f.num * g.den <= g.num * f.den

\* Fault: the guide sized from the height alone, without the clamp to the width
GuideSizeUnclamped(documentType, w, h) ==
    [width |-> Frac(3 * (h - bottomMarginPx) * MRZScanGuideRatios(documentType).width,
                    4 * MRZScanGuideRatios(documentType).height),
     height |-> Frac(3 * (h - bottomMarginPx), 4)]

\* actualWidth and actualHeight (part_002:517-545) in a viewport of width w and
\* height h: baseUnit * targetRatio.width and baseUnit * targetRatio.height,
\* where baseUnit comes from 75% of the height above the margin (byHeight) or
\* from 90% of the width (byWidth).
GuideSize(documentType, w, h) ==
    LET targetRatio == MRZScanGuideRatios(documentType)
        effectiveHeightWithMargin == h - bottomMarginPx
        availableHeight == Frac(3 * effectiveHeightWithMargin, 4)
        availableWidth == Frac(9 * w, 10)
        byHeight ==
            [width |-> Frac(3 * effectiveHeightWithMargin * targetRatio.width,
                            4 * targetRatio.height),
             height |-> availableHeight]
        byWidth ==
            [width |-> availableWidth,
             height |-> Frac(9 * w * targetRatio.height, 10 * targetRatio.width)]
    IN IF w > h
       THEN IF FracGreater(byHeight.width, availableWidth) THEN byWidth ELSE byHeight
       ELSE IF FracGreater(byWidth.height, availableHeight) THEN byHeight ELSE byWidth

\* Math.round((a / b) * 100) for integers a and b > 0: the quotient by long
\* division (100 = 5 * 5 * 2 * 2), rounded half up as Math.round does.
RoundPercent(a, b) ==
    LET q0 == a \div b
        r0 == a % b
        q1 == q0 * 5 + (r0 * 5) \div b
        r1 == (r0 * 5) % b
        q2 == q1 * 5 + (r1 * 5) \div b
        r2 == (r1 * 5) % b
        q3 == q2 * 2 + (r2 * 2) \div b
        r3 == (r2 * 2) % b
        q4 == q3 * 2 + (r3 * 2) \div b
        r4 == (r3 * 2) % b
    IN IF 2 * r4 >= b THEN q4 + 1 ELSE q4

\* The region calculateScanRegion gives to setScanRegion (part_002:547-565):
\* leftOffset = (w - actualWidth) / 2, topOffset = (h - margin - actualHeight) / 2,
\* each edge a rounded percentage of the viewport.
ScanRegionOf(documentType, w, h) ==
    LET size == GuideSize(documentType, w, h)
        wn == size.width.num
        wd == size.width.den
        hn == size.height.num
        hd == size.height.den
        hm == h - bottomMarginPx
    IN [left |-> RoundPercent(w * wd - wn, 2 * wd * w),
        right |-> RoundPercent(w * wd + wn, 2 * wd * w),
        top |-> RoundPercent(hm * hd - hn, 2 * hd * h),
        bottom |-> RoundPercent(hm * hd + hn, 2 * hd * h)]

\* calculateScanRegion (part_002:493-569): the region in force afterwards;
\* nothing is set while the camera is closed or the video has no visible region.
calculateScanRegion(documentType) ==
    IF resources.cameraEnhancer = 0 \/ ~engine.cameraOpen \/ viewport = NoViewport
    THEN scanRegion
    ELSE ScanRegionOf(documentType, viewport.width, viewport.height)

\* Fault: the guide of the last type of the mode, not of the first
GuideDocTypeLast(mode) ==
    CASE mode \in {"All", "TD2", "PassportAndTD2", "TD1AndTD2"} -> "TD2"
      [] mode \in {"TD1", "PassportAndTD1"} -> "TD1"
      [] mode = "Passport" -> "Passport"
      [] OTHER -> "none"

\* The three assignments of a case of the switch (part_002:590-592, 599-601,
\* 606-608): the guide of docType is shown and the other two are hidden
GuideOnly(docType) == [t \in DocTypes |-> IF t = docType THEN "block" ELSE "none"]

\* The guide toggleScanGuide shows for a scan mode (part_002:586-616); "none"
\* stands for the default branch, which shows nothing and sets no region.
GuideDocType(mode) ==
    CASE mode \in {"All", "Passport", "PassportAndTD1", "PassportAndTD2"} -> "Passport"
      [] mode \in {"TD1", "TD1AndTD2"} -> "TD1"
      [] mode = "TD2" -> "TD2"
      [] OTHER -> "none"

\* toggleScanGuide(enabled) (part_002:571-618) under the scan mode `mode`: the
\* controls afterwards.  Without the camera view in the container there is no
\* shadow root and nothing happens.
toggleScanGuideUi(mode, enabled) ==
    IF ~engine.uiAttached THEN ui
    ELSE IF ~enabled \/ ~config.showScanGuide
    THEN [ui EXCEPT !.guide = [t \in DocTypes |-> "none"]]
    ELSE IF GuideDocType(mode) = "none" THEN ui
    ELSE [ui EXCEPT !.guide = GuideOnly(GuideDocType(mode))]

\* ... and the scan region afterwards
toggleScanGuideRegion(mode, enabled) ==
    IF engine.uiAttached /\ enabled /\ config.showScanGuide /\ GuideDocType(mode) # "none"
    THEN calculateScanRegion(GuideDocType(mode))
    ELSE scanRegion

\* setupScanModeSelector (part_002:212-234) and `toast.style.display = "none"`
\* (part_002:197): the controls after initializeElements
setupScanModeSelector(mode) ==
    LET hidden == CASE mode = "PassportAndTD1" -> {"TD2"}
                    [] mode = "PassportAndTD2" -> {"TD1"}
                    [] mode = "TD1AndTD2" -> {"Passport"}
                    [] OTHER -> {}
    IN [ui EXCEPT !.selectorHidden =
                      ~config.showFormatSelector
                          \/ mode \notin {"PassportAndTD1", "PassportAndTD2",
                                          "TD1AndTD2", "All"},
                  !.hiddenOptions = IF config.showFormatSelector THEN hidden ELSE {},
                  !.toast = "none"]

\* The date of the session followed by Spec
SessionNow == MRZDate(2026, 11, 1)

\* The viewport of the session followed by Spec
SessionViewport ==
    [width |-> MinSide + SideStep * SideCount, height |-> MinSide + SideStep * SideCount]

Init ==
    /\ container \in {"element", "missing"}
    /\ isCapturing = FALSE
    /\ isInitialized = FALSE
    /\ scannerView = 0
    /\ resources = DisposedResources
    /\ engine = ClosedEngine
    /\ call = [c \in Calls |-> NoCall]
    /\ view = [c \in Calls |-> NoView]
    /\ promise = [c \in Calls |-> NoPromise]
    /\ launchPc = [c \in Calls |-> "none"]
    /\ upload = NoUpload
    /\ last = Did("constructor", <<>>, NoError)
    /\ config = DefaultConfig
    /\ scanModeManager = [t \in DocTypes |-> TRUE]
    /\ currentScanMode = "All"
    /\ ui = TemplateUi
    /\ viewport = SessionViewport
    /\ scanRegion = NoRegion
    /\ now = SessionNow

-----------------------------------------------------------------------------
\* Helpers shared by the handlers

\* The facade is about to run its continuation of `await scannerView.launch()`:
\* microtasks run before the next task of the event loop.
Quiescent ==
    ~ \E c \in Calls : call[c].pc = "awaitView" /\ promise[c].state = "fulfilled"

\* closeCamera() dereferences cameraView, cameraEnhancer and cvRouter
ResourcesAlive == resources.cameraView # 0

\* closeCamera (part_002:664-684) and stopCapturing (part_002:691-696)
closeCamera(e) ==
    [e EXCEPT !.resizeListener = FALSE, !.resizeTimer = FALSE, !.uiAttached = FALSE,
              !.cameraOpen = FALSE, !.capturing = FALSE]

closeCameraCalls == <<"cameraEnhancer.close", "cvRouter.stopCapturing">>

\* closeCamera once the resources are nulled: the listener and the timer are
\* removed (part_002:666-671) before cameraView.getUIElement() throws (677)
closeCameraNulled(e) == [e EXCEPT !.resizeListener = FALSE, !.resizeTimer = FALSE]

\* Fault: a removeChild that is not guarded by parentElement
closeCameraErrorUnguarded(e) ==
    IF e.uiAttached THEN "none" ELSE "NotFoundError: removeChild"

\* What closeCamera raises while the resources are alive: removeChild runs only
\* if the camera view has a parent (part_002:677-679)
closeCameraError(e) == "none"

\* Fault: a resolve function whose every call sets the outcome
SettleOverwrites(p, r) == [state |-> "fulfilled", value |-> r, calls |-> p.calls + 1]

\* The resolve function of a promise: the first call settles it, a later call
\* changes nothing.
Settle(p, r) ==
    IF p.state = "pending"
    THEN [state |-> "fulfilled", value |-> r, calls |-> p.calls + 1]
    ELSE [p EXCEPT !.calls = @ + 1]

\* this.currentScanResolver(r) of the view of call s, where the resolver is defined
currentScanResolver(s, r) == [promise EXCEPT ![s] = Settle(@, r)]

\* Fault: a result that is never published
onResultUpdatedSkipped(r) == resources

\* resources.onResultUpdated (MRZScanner.ts:80-82) through `onResultUpdated?.(r)`
onResultUpdated(r) ==
    IF resources.onResultUpdated THEN [resources EXCEPT !.result = r] ELSE resources

\* The engine objects after dispose(): camera closed, capture stopped, the
\* containers emptied.  The window's resize listener and the timers are not
\* touched by dispose().
DisposedEngine(e) ==
    [ClosedEngine EXCEPT !.resizeListener = e.resizeListener,
                         !.resizeTimer = e.resizeTimer,
                         !.toastTimer = e.toastTimer]

\* cleanContainer(this.config.container) -> getElement throws for a selector that
\* matches nothing (MRZScanner.ts:315-323, part_000:3-10)
DisposeThrows == container = "missing"

\* Fault: a finally block that does not call dispose()
FinallyWithoutDispose(c, ret, did) ==
    /\ UNCHANGED now
    /\ UNCHANGED uiVars
    /\ isCapturing' = FALSE
    /\ UNCHANGED <<scannerView, resources, engine, isInitialized>>
    /\ call' = [call EXCEPT ![c] = [pc |-> "returned", ret |-> ret]]
    /\ last' = did

\* The end of an accepted launch(): `finally { isCapturing = false; dispose() }`
\* (MRZScanner.ts:395-398, 282-329) after the value ret was chosen for return.
\* A throw inside finally replaces the return: the call rejects.
Finally(c, ret, did) ==
    /\ UNCHANGED now
    /\ ui' = TemplateUi
    /\ scanRegion' = NoRegion
    /\ UNCHANGED <<config, scanModeManager, currentScanMode, viewport>>
    /\ isCapturing' = FALSE
    /\ scannerView' = 0
    /\ resources' = DisposedResources
    /\ engine' = DisposedEngine(engine)
    /\ IF DisposeThrows
       THEN /\ isInitialized' = isInitialized
            /\ call' = [call EXCEPT ![c] = [pc |-> "threw", ret |-> NullResult]]
            /\ last' = [did EXCEPT !.effects = @ \o <<"dispose">>,
                                    !.error = ErrElementNotFound]
       ELSE /\ isInitialized' = FALSE
            /\ call' = [call EXCEPT ![c] = [pc |-> "returned", ret |-> ret]]
            /\ last' = [did EXCEPT !.effects = @ \o <<"dispose">>]

\* Fault: a catch block in launch() that reports the session as cancelled
FacadeFailedAsCancelled == StatusOnly(RS_CANCELLED, "Cancelled")

\* The result built by launch()'s catch (MRZScanner.ts:387-394); its message is
\* `MRZ Scanner failed. ` followed by the text of the error, which is left out.
FacadeFailed == StatusOnly(RS_FAILED, "MRZ Scanner failed")

-----------------------------------------------------------------------------
\* MRZScanner.launch (MRZScanner.ts:331-399)

\* Fault: launch() without the isCapturing guard
LaunchGuardRemoved == FALSE

\* `if (this.isCapturing)` (MRZScanner.ts:332)
LaunchGuard == isCapturing

\* The calls are numbered in the order they are made.
NextCall(c) == call[c].pc = "idle" /\ \A d \in Calls : d < c => call[d].pc # "idle"

\* Fault: the guard inside the try block, so that the finally block runs
LaunchRejectedInTry(c) ==
    /\ Quiescent
    /\ NextCall(c)
    /\ LaunchGuard
    /\ Finally(c, NullResult, Did("MRZScanner.launch", <<"throw">>, ErrInProgress))
    /\ UNCHANGED <<container, view, promise, launchPc, upload>>

\* launch() while a session is in flight: throws before the try block
LaunchRejected(c) ==
    /\ Quiescent
    /\ NextCall(c)
    /\ LaunchGuard
    /\ call' = [call EXCEPT ![c] = [pc |-> "rejected", ret |-> NullResult]]
    /\ last' = Did("MRZScanner.launch", <<"throw">>, ErrInProgress)
    /\ UNCHANGED uiVars
    /\ UNCHANGED <<container, isCapturing, isInitialized, scannerView, resources,
                   engine, view, promise, launchPc, upload>>
    /\ UNCHANGED now

\* launch() accepted, initializeMRZScannerConfig throws in getElement
\* (MRZScanner.ts:216-217): initialize rethrows, launch's catch builds the Failed
\* result, and finally runs.
LaunchConfigFails(c) ==
    /\ Quiescent
    /\ NextCall(c)
    /\ ~LaunchGuard
    /\ container = "missing"
    /\ Finally(c, FacadeFailed,
               Failing("initializeMRZScannerConfig",
                       Did("MRZScanner.launch", <<"initializeMRZScannerConfig">>, NoError)))
    /\ UNCHANGED <<container, view, promise, launchPc, upload>>

\* launch() accepted: runs up to the first await of initializeDCVResources
LaunchAccepted(c) ==
    /\ Quiescent
    /\ NextCall(c)
    /\ ~LaunchGuard
    /\ container = "element"
    /\ isCapturing' = TRUE
    /\ call' = [call EXCEPT ![c].pc = "createResources"]
    /\ last' = Did("MRZScanner.launch", <<"initializeMRZScannerConfig">>, NoError)
    /\ UNCHANGED uiVars
    /\ UNCHANGED <<container, isInitialized, scannerView, resources, engine, view,
                   promise, launchPc, upload>>
    /\ UNCHANGED now

\* initializeDCVResources (MRZScanner.ts:116-141) settles: k of the three
\* instances were created before one createInstance failed; k = 3 is success.
\* On success initialize() goes on to construct the view and to call
\* view.initialize() up to its first await (part_002:116-142).
CreateResourcesDone(c, k) ==
    /\ Quiescent
    /\ call[c].pc = "createResources"
    /\ IF k < 3
       THEN /\ Finally(c, FacadeFailed,
                       Failing("createInstance",
                               Did("MRZScanner.initialize", <<"createInstance">>, NoError)))
            /\ UNCHANGED view
       ELSE /\ resources' = [resources EXCEPT !.cameraView = c, !.cameraEnhancer = c,
                                              !.cvRouter = c, !.onResultUpdated = TRUE]
            /\ scannerView' = c
            /\ view' = [view EXCEPT ![c] = NewView]
            /\ call' = [call EXCEPT ![c].pc = "viewInit"]
            /\ last' = Did("MRZScanner.initialize",
                           <<"createInstance", "new MRZScannerView", "cvRouter.setInput">>,
                           NoError)
            /\ scanModeManager' = initializeScanModeManager(config.mrzFormatType)
            /\ currentScanMode' =
                   getScanMode(initializeScanModeManager(config.mrzFormatType))
            /\ ui' = TemplateUi
            /\ UNCHANGED <<isCapturing, isInitialized, engine, config, viewport,
                           scanRegion>>
    /\ UNCHANGED <<container, promise, launchPc, upload>>
    /\ UNCHANGED now

\* Fault: an initialize() without the test of `initialized`
initializeUnguarded(initialized, e) == [e EXCEPT !.receivers = @ + 1]

\* The engine after a call of view.initialize() whose engine calls succeed
\* (part_002:116-156): `if (this.initialized) return`, else one more result
\* receiver on the router
initialize(initialized, e) ==
    IF initialized THEN e ELSE [e EXCEPT !.receivers = @ + 1]

\* view.initialize() settles (part_002:142-169): initSettings and
\* addResultReceiver both succeeded, or one of them failed.
\*   ok:   initialized = true; the facade sets isInitialized and calls
\*         view.launch(), which calls initialize() again (part_002:848), makes
\*         the session promise, stores its resolver and
\*         runs openCamera() up to `await cameraEnhancer.open()` (part_002:846-856,
\*         620-635).
\*   fail: the catch closes the camera and calls this.currentScanResolver, which is
\*         undefined before the first launch: a TypeError leaves initialize(), the
\*         facade's initialize rethrows and launch's catch returns Failed.
ViewInitializeDone(c, ok) ==
    /\ Quiescent
    /\ call[c].pc = "viewInit"
    /\ IF ok
       THEN /\ view' = [view EXCEPT ![c].initialized = TRUE,
                                    ![c].currentScanResolver = TRUE]
            /\ isInitialized' = TRUE
            /\ promise' = [promise EXCEPT ![c] = PendingPromise]
            /\ launchPc' = [launchPc EXCEPT ![c] = "openCamera"]
            /\ engine' = [initialize(TRUE, initialize(view[c].initialized, engine))
                              EXCEPT !.uiAttached = TRUE]
            /\ call' = [call EXCEPT ![c].pc = "awaitView"]
            /\ last' = Of(c, Did("MRZScannerView.initialize",
                                  <<"cvRouter.addResultReceiver", "new Promise",
                                    "cameraEnhancer.open">>, NoError))
            /\ UNCHANGED <<isCapturing, scannerView, resources>>
            /\ UNCHANGED uiVars
       ELSE /\ ~view[c].currentScanResolver
            /\ Finally(c, FacadeFailed,
                       Of(c, Failing("initialize",
                                     Did("MRZScannerView.initialize", closeCameraCalls,
                                         ErrResolverUndefined))))
            /\ UNCHANGED <<view, promise, launchPc>>
    /\ UNCHANGED <<container, upload>>
    /\ UNCHANGED now

\* Fault: a facade that does not wait for the session promise
FacadeResumeEarly(c) ==
    /\ call[c].pc = "awaitView"
    /\ Finally(c, StatusOnly(promise[c].value.code, promise[c].value.message),
               Did("MRZScanner.launch", <<"return">>, NoError))
    /\ UNCHANGED <<container, view, promise, launchPc, upload>>

\* The continuation of `await components.scannerView.launch()`
\* (MRZScanner.ts:357-386) and the finally block.
FacadeResume(c) ==
    /\ call[c].pc = "awaitView"
    /\ promise[c].state = "fulfilled"
    /\ LET scanResult == promise[c].value
           ret == IF scanResult.code # RS_SUCCESS
                  THEN StatusOnly(scanResult.code, scanResult.message)
                  ELSE resources.result
       IN Finally(c, ret, Did("MRZScanner.launch", <<"return">>, NoError))
    /\ UNCHANGED <<container, view, promise, launchPc, upload>>

-----------------------------------------------------------------------------
\* MRZScannerView (src/unnamed/part_002)

ViewFailed(message) == StatusOnly(RS_FAILED, message)

\* openCamera() settles (part_002:635-662), then the executor of launch() goes
\* on to call cvRouter.startCapturing (part_002:856-858): openCamera() catches
\* its own errors, so the executor continues whatever the outcome.
\*   ok:           the camera is open, initializeElements bound the controls
\*   openFail:     cameraEnhancer.open() rejected
\*   elementsFail: the camera opened, initializeElements threw
\* On failure the catch closes the camera and resolves the session as Failed.
OpenCameraDone(s, outcome) ==
    /\ Quiescent
    /\ launchPc[s] = "openCamera"
    /\ resources.cameraEnhancer = s
    /\ launchPc' = [launchPc EXCEPT ![s] = "startCapturing"]
    /\ IF outcome = "ok"
       THEN /\ engine.uiAttached
            /\ engine' = [engine EXCEPT
                              !.cameraOpen = TRUE, !.resizeListener = TRUE,
                              !.templateName = templateName(config, currentScanMode)]
            /\ view' = [view EXCEPT ![s].initializedDCE = TRUE]
            /\ last' = Of(s, Did("MRZScannerView.openCamera",
                                 <<"initializeElements", "cvRouter.startCapturing">>,
                                 NoError))
            /\ ui' = setupScanModeSelector(currentScanMode)
            /\ UNCHANGED <<promise, config, scanModeManager, currentScanMode, viewport,
                           scanRegion>>
       ELSE /\ engine' = [closeCamera(engine) EXCEPT
                              !.templateName = templateName(config, currentScanMode)]
            /\ promise' = currentScanResolver(s, ViewFailed("MRZ Scanner Open Camera Error"))
            /\ last' = Of(s, Failing("openCamera",
                                     Did("MRZScannerView.openCamera",
                                         closeCameraCalls
                                             \o <<"resolve", "cvRouter.startCapturing">>,
                                         NoError)))
            /\ UNCHANGED view
            /\ UNCHANGED uiVars
    /\ UNCHANGED <<container, isCapturing, isInitialized, scannerView, resources,
                   call, upload>>
    /\ UNCHANGED now

\* cvRouter.startCapturing settles (part_002:858-866).  The executor is an async
\* function: when startCapturing rejects, the executor's own promise rejects,
\* nobody handles it, and the session promise is not touched.
StartCapturingDone(s, ok) ==
    /\ Quiescent
    /\ launchPc[s] = "startCapturing"
    /\ IF ok
       THEN /\ launchPc' = [launchPc EXCEPT ![s] = "done"]
            /\ engine' = IF resources.cvRouter = s
                         THEN [engine EXCEPT !.capturing = TRUE]
                         ELSE engine
            /\ last' = Of(s, Did("MRZScannerView.launch",
                                 <<"cameraEnhancer.setPixelFormat", "toggleScanGuide">>,
                                 NoError))
            /\ ui' = toggleScanGuideUi(currentScanMode, TRUE)
            /\ scanRegion' = toggleScanGuideRegion(currentScanMode, TRUE)
            /\ UNCHANGED <<config, scanModeManager, currentScanMode, viewport>>
       ELSE /\ launchPc' = [launchPc EXCEPT ![s] = "crashed"]
            /\ engine' = engine
            /\ last' = Of(s, Failing("startCapturing",
                                     Did("MRZScannerView.launch", <<>>, ErrStartCapturing)))
            /\ UNCHANGED uiVars
    /\ UNCHANGED <<container, isCapturing, isInitialized, scannerView, resources,
                   call, view, promise, upload>>
    /\ UNCHANGED now

\* this.capturedResultItems = result.items; this.originalImageData = ...
StoreItems == <<"capturedResultItems">>
StoreBatch == <<"capturedResultItems", "originalImageData">>

\* Fault: handleMRZResult without its two guards
ResultBranchUnguarded(b) == IF ProcessThrows(b) THEN "fail" ELSE "success"

\* The path handleMRZResult takes for a captured result (part_002:698-757):
\*   "skip"    `if (result.items.length <= 1) return`
\*   "ignore"  `if (textLineResultItems)` is false
\*   "fail"    processMRZData throws, the catch block runs
\*   "success" processMRZData returns
ResultBranch(b) ==
    IF Cardinality(b.items) <= 1 THEN "skip"
    ELSE IF ~HasTextLine(b) THEN "ignore"
    ELSE IF ProcessThrows(b) THEN "fail"
    ELSE "success"

\* handleMRZResult(result) (part_002:698-758): the result receiver registered by
\* the view of call s on its router, called by the engine while it captures.
handleMRZResult(s, b) ==
    /\ Quiescent
    /\ view[s].initialized
    /\ resources.cvRouter = s
    /\ engine.receivers > 0
    /\ engine.capturing
    /\ engine.cameraOpen
    /\ LET branch == ResultBranch(b)
           mrzResult == MRZResult(RS_SUCCESS, "Success", processMRZData(b))
           did(effects) == Of(s, Given(b, Did("MRZScannerView.handleMRZResult",
                                              effects, NoError)))
       IN CASE branch = "skip" ->
                 /\ last' = did(StoreItems)
                 /\ UNCHANGED <<engine, resources, promise>>
            [] branch = "ignore" ->
                 /\ last' = did(StoreBatch)
                 /\ UNCHANGED <<engine, resources, promise>>
            [] branch = "fail" ->
                 /\ engine' = closeCamera(engine)
                 /\ promise' = currentScanResolver(s, ViewFailed("Error capturing image"))
                 /\ last' = Failing("processMRZData",
                                    did(StoreBatch \o <<"processMRZData">>
                                            \o closeCameraCalls \o <<"resolve">>))
                 /\ UNCHANGED resources
            [] branch = "success" ->
                 /\ engine' = closeCamera(engine)
                 /\ resources' = onResultUpdated(mrzResult)
                 /\ promise' = currentScanResolver(s, mrzResult)
                 /\ last' = did(StoreBatch \o <<"processMRZData">> \o closeCameraCalls
                                    \o <<"onResultUpdated", "resolve">>)
    /\ UNCHANGED uiVars
    /\ UNCHANGED <<container, isCapturing, isInitialized, scannerView, call,
                   view, launchPc, upload>>
    /\ UNCHANGED now

\* The controls of the view of call s can be clicked: initializeElements bound
\* them (part_002:236-247) and the camera view is in the container.
ControlsLive(s) ==
    /\ view[s].initializedDCE
    /\ resources.cameraView = s
    /\ engine.uiAttached

\* Fault: a close button that resolves the session and leaves the camera open
handleCloseBtnKeepsCamera(s) ==
    /\ Quiescent
    /\ ControlsLive(s)
    /\ promise' = currentScanResolver(s, StatusOnly(RS_CANCELLED, "Cancelled"))
    /\ last' = Of(s, Did("MRZScannerView.handleCloseBtn", <<"resolve">>, NoError))
    /\ UNCHANGED uiVars
    /\ UNCHANGED <<container, isCapturing, isInitialized, scannerView, resources,
                   engine, call, view, launchPc, upload>>
    /\ UNCHANGED now

\* handleCloseBtn (part_002:278-289)
handleCloseBtn(s) ==
    /\ Quiescent
    /\ ControlsLive(s)
    /\ engine' = closeCamera(engine)
    /\ IF view[s].currentScanResolver
       THEN /\ promise' = currentScanResolver(s, StatusOnly(RS_CANCELLED, "Cancelled"))
            /\ last' = Of(s, Did("MRZScannerView.handleCloseBtn",
                                 closeCameraCalls \o <<"resolve">>, NoError))
       ELSE /\ promise' = promise
            /\ last' = Of(s, Did("MRZScannerView.handleCloseBtn", closeCameraCalls,
                                 NoError))
    /\ UNCHANGED uiVars
    /\ UNCHANGED <<container, isCapturing, isInitialized, scannerView, resources,
                   call, view, launchPc, upload>>
    /\ UNCHANGED now

\* uploadImage() up to `await new Promise<File>` (part_002:387-411)
UploadClick(s) ==
    /\ Quiescent
    /\ ControlsLive(s)
    /\ upload.pc = "none"
    /\ upload' = [pc |-> "pickFile", sess |-> s]
    /\ last' = Of(s, Did("MRZScannerView.uploadImage", <<"input.click">>, NoError))
    /\ UNCHANGED uiVars
    /\ UNCHANGED <<container, isCapturing, isInitialized, scannerView, resources,
                   engine, call, view, promise, launchPc>>
    /\ UNCHANGED now

\* Fault: a catch block in uploadImage that closes the camera and resolves nothing
UploadCatchSilent(s, f, b, effects) ==
    /\ engine' = closeCamera(engine)
    /\ promise' = promise
    /\ last' = Of(s, Given(b, Failing(f, Did("MRZScannerView.uploadImage",
                                             effects \o closeCameraCalls, NoError))))

\* The catch block of uploadImage (part_002:459-471) after the failure f:
\* closeCamera() throws when the facade has nulled the resources, and then
\* nothing catches it.
UploadCatch(s, f, b, effects) ==
    LET did(e, error) == Of(s, Given(b, Failing(f, Did("MRZScannerView.uploadImage",
                                                       e, error))))
    IN IF ResourcesAlive
       THEN /\ engine' = closeCamera(engine)
            /\ promise' = currentScanResolver(s,
                              ViewFailed("Error processing uploaded image"))
            /\ last' = did(effects \o closeCameraCalls \o <<"resolve">>, NoError)
       ELSE /\ engine' = closeCameraNulled(engine)
            /\ promise' = promise
            /\ last' = did(effects, ErrNullResource)

\* The file picker settles (part_002:399-423).
\*   cancel:   the promise of the file never settles, uploadImage stays suspended
\*   notImage: the promise rejects, the catch block runs
\*   image:    closeCamera(false), then cvRouter.capture(file, templateName);
\*             with the resources nulled closeCamera(false) throws into the catch
UploadFilePicked(outcome) ==
    /\ Quiescent
    /\ upload.pc = "pickFile"
    /\ CASE outcome = "cancel" ->
              /\ upload' = NoUpload
              /\ last' = Of(upload.sess, Did("MRZScannerView.uploadImage",
                                             <<"hideLoading">>, NoError))
              /\ UNCHANGED <<engine, promise>>
         [] outcome = "notImage" ->
              /\ upload' = NoUpload
              /\ UploadCatch(upload.sess, "notImage", NoBatch, <<>>)
         [] outcome = "image" /\ ResourcesAlive ->
              /\ upload' = [upload EXCEPT !.pc = "capture"]
              /\ engine' = [closeCamera(engine) EXCEPT
                                !.templateName = templateName(config, currentScanMode)]
              /\ last' = Of(upload.sess, Did("MRZScannerView.uploadImage",
                                             closeCameraCalls \o <<"cvRouter.capture">>,
                                             NoError))
              /\ UNCHANGED promise
         [] outcome = "image" /\ ~ResourcesAlive ->
              /\ upload' = NoUpload
              /\ UploadCatch(upload.sess, "closeCamera", NoBatch, <<>>)
    /\ UNCHANGED uiVars
    /\ UNCHANGED <<container, isCapturing, isInitialized, scannerView, resources,
                   call, view, launchPc>>
    /\ UNCHANGED now

\* The data uploadImage puts into its Success result (part_002:434-441)
UploadData(b) == IF HasTextLine(b) THEN processMRZData(b) ELSE EmptyData

\* cvRouter.capture settles (part_002:423-475): it rejected (b is NoBatch), or it
\* delivered the captured result b.
UploadCaptureDone(b) ==
    /\ Quiescent
    /\ upload.pc = "capture"
    /\ upload' = NoUpload
    /\ LET s == upload.sess
           mrzResult == MRZResult(RS_SUCCESS, "Success", UploadData(b))
       IN IF b = NoBatch
          THEN /\ UploadCatch(s, "capture", b, <<"cvRouter.capture">>)
               /\ UNCHANGED resources
          ELSE IF HasTextLine(b) /\ ProcessThrows(b)
          THEN /\ UploadCatch(s, "processMRZData", b, StoreBatch \o <<"processMRZData">>)
               /\ UNCHANGED resources
          ELSE /\ resources' = onResultUpdated(mrzResult)
               /\ promise' = currentScanResolver(s, mrzResult)
               /\ engine' = engine
               /\ last' = Of(s, Given(b, Did("MRZScannerView.uploadImage",
                                 StoreBatch
                                   \o (IF HasTextLine(b) THEN <<"processMRZData">> ELSE <<>>)
                                   \o <<"onResultUpdated", "resolve">>,
                                 NoError)))
    /\ UNCHANGED uiVars
    /\ UNCHANGED <<container, isCapturing, isInitialized, scannerView, call, view,
                   launchPc>>
    /\ UNCHANGED now

-----------------------------------------------------------------------------
OpenCameraOutcomes == {"ok", "openFail", "elementsFail"}
FilePickOutcomes == {"cancel", "notImage", "image"}

Next ==
    \/ \E c \in Calls : LaunchRejected(c)
    \/ \E c \in Calls : LaunchConfigFails(c)
    \/ \E c \in Calls : LaunchAccepted(c)
    \/ \E c \in Calls : \E k \in 0..3 : CreateResourcesDone(c, k)
    \/ \E c \in Calls : \E ok \in BOOLEAN : ViewInitializeDone(c, ok)
    \/ \E c \in Calls : FacadeResume(c)
    \/ \E s \in Calls : \E o \in OpenCameraOutcomes : OpenCameraDone(s, o)
    \/ \E s \in Calls : \E ok \in BOOLEAN : StartCapturingDone(s, ok)
    \/ \E s \in Calls : \E b \in Batches : handleMRZResult(s, b)
    \/ \E s \in Calls : handleCloseBtn(s)
    \/ \E s \in Calls : UploadClick(s)
    \/ \E o \in FilePickOutcomes : UploadFilePicked(o)
    \/ \E b \in Batches \cup {NoBatch} : UploadCaptureDone(b)

Spec == Init /\ [][Next]_vars

-----------------------------------------------------------------------------
\* The scan mode controls of the view (src/unnamed/part_002:808-844)

\* DCEShowToast(info) (part_002:808-818): the controls afterwards.  The toast
\* element exists whenever the controls are bound (assignDCEClickEvents,
\* part_002:237-239).
DCEShowToastSilent(info) == ui

DCEShowToast(info) == [ui EXCEPT !.toast = info]

\* Fault: a toggle without the guard of the last enabled type
LastModeGuardRemoved(docType) == FALSE

\* toggleScanDocType's guard (part_002:821-824): docType is enabled and no other
\* type is
LastModeGuard(docType) ==
    /\ scanModeManager[docType]
    /\ {t \in DocTypes : scanModeManager[t] /\ t # docType} = {}

\* A click on the option of docType (part_002:258-275), which calls
\* toggleScanDocType(docType) (part_002:820-844) unless the option is hidden.
\* The handler tests the option's own display only: a click dispatched to an
\* option runs it also while the container of the options is hidden.
\* Fault: a toggle that only switches the type on
toggleEnables(manager, docType) == [manager EXCEPT ![docType] = TRUE]

\* this.scanModeManager[docType] = !this.scanModeManager[docType] (part_002:831)
toggle(manager, docType) == [manager EXCEPT ![docType] = ~@]

toggleScanDocType(docType) ==
    /\ Quiescent
    /\ docType \notin ui.hiddenOptions
    /\ \E s \in Calls :
          /\ ControlsLive(s)
          /\ IF LastModeGuard(docType)
             THEN /\ ui' = DCEShowToast("At least one mode must be enabled")
                  /\ engine' = [engine EXCEPT !.toastTimer = s]
                  /\ last' = About(docType, Did("MRZScannerView.toggleScanDocType",
                                                <<"console.warn", "DCEShowToast">>,
                                                NoError))
                  /\ UNCHANGED <<scanModeManager, currentScanMode, scanRegion>>
             ELSE LET manager == toggle(scanModeManager, docType)
                      mode == getScanMode(manager)
                  IN /\ scanModeManager' = manager
                     /\ currentScanMode' = mode
                     /\ ui' = [toggleScanGuideUi(mode, TRUE) EXCEPT
                                   !.highlighted = TRUE,
                                   !.selected = {t \in DocTypes : manager[t]}]
                     /\ scanRegion' = toggleScanGuideRegion(mode, TRUE)
                     /\ last' = About(docType, Did("MRZScannerView.toggleScanDocType",
                                                   <<"getScanMode", "toggleScanGuide",
                                                     "classList.toggle">>, NoError))
                     /\ UNCHANGED engine
    /\ UNCHANGED <<config, viewport>>
    /\ UNCHANGED <<container, isCapturing, isInitialized, scannerView, resources,
                   call, view, promise, launchPc, upload>>
    /\ UNCHANGED now

\* The timer DCEShowToast set (part_002:815-817) fires: it hides the toast
\* element of the view that set it.  engine.toastTimer is the view whose toast
\* timer is pending (the latest one), 0 for none; nothing clears the timer.
ToastExpires ==
    /\ Quiescent
    /\ engine.toastTimer # 0
    /\ engine' = [engine EXCEPT !.toastTimer = 0]
    /\ ui' = IF resources.cameraView = engine.toastTimer
             THEN [ui EXCEPT !.toast = "none"]
             ELSE ui
    /\ last' = Did("MRZScannerView.DCEShowToast", <<"setTimeout callback">>, NoError)
    /\ UNCHANGED <<config, scanModeManager, currentScanMode, viewport, scanRegion>>
    /\ UNCHANGED <<container, isCapturing, isInitialized, scannerView, resources,
                   call, view, promise, launchPc, upload>>
    /\ UNCHANGED now

\* The configurations of the view followed by SpecScanMode
ScanModeConfigs ==
    [mrzFormatType : FormatTypes, showScanGuide : BOOLEAN, showFormatSelector : BOOLEAN,
     userTemplateNames : {NoUserTemplateNames},
     utilizedTemplateNames : {utilizedTemplateNames(NoUserTemplateNames)}]

\* One session on a valid container, its engine calls succeeding, under any
\* configuration of the view; the user works the scan mode options.
ScanModeInit ==
    /\ container = "element"
    /\ isCapturing = FALSE
    /\ isInitialized = FALSE
    /\ scannerView = 0
    /\ resources = DisposedResources
    /\ engine = ClosedEngine
    /\ call = [c \in Calls |-> NoCall]
    /\ view = [c \in Calls |-> NoView]
    /\ promise = [c \in Calls |-> NoPromise]
    /\ launchPc = [c \in Calls |-> "none"]
    /\ upload = NoUpload
    /\ last = Did("constructor", <<>>, NoError)
    /\ config \in ScanModeConfigs
    /\ scanModeManager = [t \in DocTypes |-> TRUE]
    /\ currentScanMode = "All"
    /\ ui = TemplateUi
    /\ viewport = SessionViewport
    /\ scanRegion = NoRegion
    /\ now = SessionNow

ScanModeNext ==
    \/ LaunchAccepted(1)
    \/ CreateResourcesDone(1, 3)
    \/ ViewInitializeDone(1, TRUE)
    \/ OpenCameraDone(1, "ok")
    \/ StartCapturingDone(1, TRUE)
    \/ \E t \in DocTypes : toggleScanDocType(t)
    \/ ToastExpires

SpecScanMode == ScanModeInit /\ [][ScanModeNext]_vars

-----------------------------------------------------------------------------
\* The scan region on a resize of the window (src/unnamed/part_002:98-112)

\* handleResize: the listener openCamera added to the window (part_002:650)
\* hides the guides and restarts the timer.  The visible region of the video
\* is the one the window has after the resize.
handleResize ==
    /\ Quiescent
    /\ engine.resizeListener
    /\ ui' = toggleScanGuideUi(currentScanMode, FALSE)
    /\ engine' = [engine EXCEPT !.resizeTimer = TRUE]
    /\ last' = Did("MRZScannerView.handleResize",
                   <<"toggleScanGuide", "clearTimeout", "setTimeout">>, NoError)
    /\ UNCHANGED <<config, scanModeManager, currentScanMode, viewport, scanRegion>>
    /\ UNCHANGED <<container, isCapturing, isInitialized, scannerView, resources,
                   call, view, promise, launchPc, upload>>
    /\ UNCHANGED now

\* The timer of handleResize fires (part_002:108-111): toggleScanGuide(true)
ResizeTimerFires ==
    /\ Quiescent
    /\ engine.resizeTimer
    /\ ui' = toggleScanGuideUi(currentScanMode, TRUE)
    /\ scanRegion' = toggleScanGuideRegion(currentScanMode, TRUE)
    /\ engine' = [engine EXCEPT !.resizeTimer = FALSE]
    /\ last' = About(GuideDocType(currentScanMode),
                     Did("MRZScannerView.toggleScanGuide", <<"calculateScanRegion">>,
                         NoError))
    /\ UNCHANGED <<config, scanModeManager, currentScanMode, viewport>>
    /\ UNCHANGED <<container, isCapturing, isInitialized, scannerView, resources,
                   call, view, promise, launchPc, upload>>
    /\ UNCHANGED now

\* The viewports a window can be resized to
Viewports == [width : Sides, height : Sides]

\* A session that scans one document type, in the state StartCapturingDone
\* leaves it in, after the window was resized to any viewport.
ScanRegionInit ==
    /\ container = "element"
    /\ isCapturing = TRUE
    /\ isInitialized = TRUE
    /\ scannerView = 1
    /\ resources = [DisposedResources EXCEPT !.cameraView = 1, !.cameraEnhancer = 1,
                                             !.cvRouter = 1, !.onResultUpdated = TRUE]
    /\ call = [c \in Calls |-> IF c = 1 THEN [NoCall EXCEPT !.pc = "awaitView"] ELSE NoCall]
    /\ view = [c \in Calls |->
                  IF c = 1
                  THEN [NewView EXCEPT !.initialized = TRUE, !.initializedDCE = TRUE,
                                       !.currentScanResolver = TRUE]
                  ELSE NoView]
    /\ promise = [c \in Calls |-> IF c = 1 THEN PendingPromise ELSE NoPromise]
    /\ launchPc = [c \in Calls |-> IF c = 1 THEN "done" ELSE "none"]
    /\ upload = NoUpload
    /\ last = Of(1, Did("MRZScannerView.launch",
                        <<"cameraEnhancer.setPixelFormat", "toggleScanGuide">>, NoError))
    /\ \E t \in DocTypes :
          /\ config = [DefaultConfig EXCEPT !.mrzFormatType = FormatSingle(t)]
          /\ scanModeManager = initializeScanModeManager(FormatSingle(t))
          /\ currentScanMode = getScanMode(initializeScanModeManager(FormatSingle(t)))
          /\ ui = [TemplateUi EXCEPT !.guide = GuideOnly(t), !.selectorHidden = TRUE, !.toast = "none"]
          /\ scanRegion = ScanRegionOf(t, SessionViewport.width, SessionViewport.height)
    /\ viewport \in Viewports
    /\ now = SessionNow
    /\ engine = [ClosedEngine EXCEPT
                    !.cameraOpen = TRUE, !.capturing = TRUE, !.uiAttached = TRUE,
                    !.resizeListener = TRUE, !.receivers = 1,
                    !.templateName = templateName(config, currentScanMode)]

ScanRegionNext ==
    \/ handleResize
    \/ ResizeTimerFires

SpecScanRegion == ScanRegionInit /\ [][ScanRegionNext]_vars

-----------------------------------------------------------------------------
\* The mapper behind the live callback (src/src/index.ts:313-405)

\* The largest number of fields of one parsed item that failed validation
MaxFailed == 3

\* The fields of a parsed item whose validation status the mapper asks for
EngineFields ==
    {"birthYear", "birthMonth", "birthDay", "expiryYear", "expiryMonth", "expiryDay",
     "primaryIdentifier", "secondaryIdentifier", "sex", "issuingState", "nationality",
     "passportNumber", "documentCode", "documentNumber", "longDocumentNumber"}

FailedSets == {F \in SUBSET EngineFields : Cardinality(F) <= MaxFailed}

\* The captured results with a text line and a parsed item, the item with any
\* code type, any failed fields and any of the document number values
MapperBatches ==
    {[Batch({"O", "T", "P"}, ct) EXCEPT !.failed = F, !.valued = V] :
        ct \in CodeTypes, F \in FailedSets, V \in SUBSET {"primary", "longDocumentNumber"}}

\* A session with the default configuration in the state StartCapturingDone
\* leaves it in: the engine captures and may call the result receiver.
LiveInit ==
    /\ container = "element"
    /\ isCapturing = TRUE
    /\ isInitialized = TRUE
    /\ scannerView = 1
    /\ resources = [DisposedResources EXCEPT !.cameraView = 1, !.cameraEnhancer = 1,
                                             !.cvRouter = 1, !.onResultUpdated = TRUE]
    /\ call = [c \in Calls |-> IF c = 1 THEN [NoCall EXCEPT !.pc = "awaitView"] ELSE NoCall]
    /\ view = [c \in Calls |->
                  IF c = 1
                  THEN [NewView EXCEPT !.initialized = TRUE, !.initializedDCE = TRUE,
                                       !.currentScanResolver = TRUE]
                  ELSE NoView]
    /\ promise = [c \in Calls |-> IF c = 1 THEN PendingPromise ELSE NoPromise]
    /\ launchPc = [c \in Calls |-> IF c = 1 THEN "done" ELSE "none"]
    /\ upload = NoUpload
    /\ last = Of(1, Did("MRZScannerView.launch",
                        <<"cameraEnhancer.setPixelFormat", "toggleScanGuide">>, NoError))
    /\ config = DefaultConfig
    /\ scanModeManager = [t \in DocTypes |-> TRUE]
    /\ currentScanMode = "All"
    /\ ui = [TemplateUi EXCEPT !.guide = GuideOnly("Passport"), !.toast = "none"]
    /\ viewport = SessionViewport
    /\ scanRegion = ScanRegionOf("Passport", SessionViewport.width, SessionViewport.height)
    /\ engine = [ClosedEngine EXCEPT
                    !.cameraOpen = TRUE, !.capturing = TRUE, !.uiAttached = TRUE,
                    !.resizeListener = TRUE, !.receivers = 1,
                    !.templateName = templateName(config, currentScanMode)]

MapperInit ==
    /\ LiveInit
    /\ now = SessionNow

\* resultReceiver.onCapturedResultReceived (part_002:144-146): while it
\* captures, the engine hands one of the captured results to handleMRZResult
onCapturedResultReceived(s, batches) ==
    /\ engine.capturing
    /\ \E b \in batches : handleMRZResult(s, b)

MapperNext ==
    \/ onCapturedResultReceived(1, MapperBatches)
    \/ FacadeResume(1)

SpecMapper == MapperInit /\ [][MapperNext]_vars

-----------------------------------------------------------------------------
\* The dates behind the live callback (src/src/index.ts:268-286, 74-92)

\* The two-digit years, the months and the days tried: every YearStep-th year
\* from 0, every MonthStep-th month from 1, every DayStep-th day from 1
YearStep == 11
MonthStep == 1
DayStep == 10

TwoDigitYears == {k * YearStep : k \in 0..(99 \div YearStep)}
Months == {1 + k * MonthStep : k \in 0..(11 \div MonthStep)}
Days == {1 + k * DayStep : k \in 0..(30 \div DayStep)}

\* The dates the clock can show, in the years 2000..2099
Dates == {MRZDate(2000 + y, m, d) : y \in TwoDigitYears, m \in Months, d \in Days}

\* The captured results of a passport with any date of birth
AgeBatches ==
    {[Batch({"O", "T", "P"}, "MRTD_TD3_PASSPORT") EXCEPT !.birth = DateFields(y, m, d)] :
        y \in TwoDigitYears, m \in Months, d \in Days}

AgeInit ==
    /\ LiveInit
    /\ now \in Dates

AgeNext == onCapturedResultReceived(1, AgeBatches)

SpecAge == AgeInit /\ [][AgeNext]_vars

\* The captured results of a passport with any year of expiry
ExpiryBatches ==
    {[Batch({"O", "T", "P"}, "MRTD_TD3_PASSPORT") EXCEPT
         !.expiry = [SessionExpiry EXCEPT !.year = Digits(y)]] :
        y \in 0..99}

ExpiryNext == onCapturedResultReceived(1, ExpiryBatches)

SpecExpiry == AgeInit /\ [][ExpiryNext]_vars

\* The captured results of a passport with any two-digit year of birth
AgeRangeBatches ==
    {[Batch({"O", "T", "P"}, "MRTD_TD3_PASSPORT") EXCEPT !.birth = DateFields(y, m, d)] :
        y \in 0..99, m \in Months, d \in Days}

\* The day of the session in any of the years of the clock
AgeRangeInit ==
    /\ LiveInit
    /\ now \in {MRZDate(2000 + y, SessionNow.month, SessionNow.day) : y \in TwoDigitYears}

AgeRangeNext == onCapturedResultReceived(1, AgeRangeBatches)

SpecAgeRange == AgeRangeInit /\ [][AgeRangeNext]_vars

-----------------------------------------------------------------------------
\* The controls and the public methods of the view during a live session

\* A call of view.closeCamera() (part_002:664-684), a public method, by the
\* application or by a handler, whether or not the camera is open.
closeCameraCall(s) ==
    /\ Quiescent
    /\ view[s].exists
    /\ IF ResourcesAlive
       THEN /\ engine' = closeCamera(engine)
            /\ last' = Of(s, Did("MRZScannerView.closeCamera",
                                 <<"removeEventListener">>
                                 \o (IF engine.resizeTimer THEN <<"clearTimeout">> ELSE <<>>)
                                 \o (IF engine.uiAttached THEN <<"removeChild">> ELSE <<>>)
                                 \o closeCameraCalls,
                                 closeCameraError(engine)))
       ELSE /\ engine' = closeCameraNulled(engine)
            /\ last' = Of(s, Did("MRZScannerView.closeCamera",
                                 <<"removeEventListener">>
                                 \o (IF engine.resizeTimer THEN <<"clearTimeout">> ELSE <<>>),
                                 ErrNullResource))
    /\ UNCHANGED uiVars
    /\ UNCHANGED <<container, isCapturing, isInitialized, scannerView, resources,
                   call, view, promise, launchPc, upload>>
    /\ UNCHANGED now

\* A call of view.initialize() (part_002:116-119) after initialize() has
\* succeeded; the first call is ViewInitializeDone.
viewInitialize(s) ==
    /\ Quiescent
    /\ view[s].exists
    /\ view[s].initialized
    /\ engine' = initialize(view[s].initialized, engine)
    /\ last' = Of(s, Did("MRZScannerView.initialize",
                         IF engine' = engine THEN <<>>
                         ELSE <<"cvRouter.addResultReceiver">>, NoError))
    /\ UNCHANGED uiVars
    /\ UNCHANGED <<container, isCapturing, isInitialized, scannerView, resources,
                   call, view, promise, launchPc, upload>>
    /\ UNCHANGED now

\* A call of the facade's initialize() while isInitialized (MRZScanner.ts:66-73):
\* it returns the resources and the view it has.
facadeInitialize ==
    /\ Quiescent
    /\ isInitialized
    /\ last' = Of(scannerView, Did("MRZScanner.initialize", <<>>, NoError))
    /\ UNCHANGED uiVars
    /\ UNCHANGED sessionVars
    /\ UNCHANGED now

ControlsNext ==
    \/ \E t \in DocTypes : toggleScanDocType(t)
    \/ ToastExpires
    \/ handleResize
    \/ ResizeTimerFires
    \/ handleCloseBtn(1)
    \/ closeCameraCall(1)
    \/ viewInitialize(1)
    \/ facadeInitialize
    \/ FacadeResume(1)

SpecControls == MapperInit /\ [][ControlsNext]_vars

-----------------------------------------------------------------------------
\* The template names of a session (MRZScanner.ts:221-230, part_002:421, 858)

\* The most scan modes the application supplies a template name for
MaxSupplied == 1

\* What the application gives for utilizedTemplateNames
UserTemplateNames ==
    {user \in [ScanModes -> UserNames] :
        Cardinality({val \in ScanModes : user[val] # "undefined"}) <= MaxSupplied}

\* The configurations of the view after initializeMRZScannerConfig
TemplateConfigs ==
    {[DefaultConfig EXCEPT !.mrzFormatType = f,
                           !.userTemplateNames = user,
                           !.utilizedTemplateNames = utilizedTemplateNames(user)] :
        f \in FormatTypes, user \in UserTemplateNames}

\* One session on a valid container under any of these configurations
TemplateInit ==
    /\ container = "element"
    /\ isCapturing = FALSE
    /\ isInitialized = FALSE
    /\ scannerView = 0
    /\ resources = DisposedResources
    /\ engine = ClosedEngine
    /\ call = [c \in Calls |-> NoCall]
    /\ view = [c \in Calls |-> NoView]
    /\ promise = [c \in Calls |-> NoPromise]
    /\ launchPc = [c \in Calls |-> "none"]
    /\ upload = NoUpload
    /\ last = Did("constructor", <<>>, NoError)
    /\ config \in TemplateConfigs
    /\ scanModeManager = [t \in DocTypes |-> TRUE]
    /\ currentScanMode = "All"
    /\ ui = TemplateUi
    /\ viewport = SessionViewport
    /\ scanRegion = NoRegion
    /\ now = SessionNow

\* The session is launched, its engine calls succeeding; the user works the
\* scan mode options and loads an image.
TemplateNext ==
    \/ LaunchAccepted(1)
    \/ CreateResourcesDone(1, 3)
    \/ ViewInitializeDone(1, TRUE)
    \/ OpenCameraDone(1, "ok")
    \/ StartCapturingDone(1, TRUE)
    \/ \E t \in DocTypes : toggleScanDocType(t)
    \/ UploadClick(1)
    \/ UploadFilePicked("image")

SpecTemplate == TemplateInit /\ [][TemplateNext]_vars

-----------------------------------------------------------------------------
\* The scan guides of a session (src/unnamed/part_002:571-618)

\* One session under any configuration of the view: the camera opens or
\* fails to open, the user works the scan mode options, resizes the window.
GuideNext ==
    \/ LaunchAccepted(1)
    \/ CreateResourcesDone(1, 3)
    \/ ViewInitializeDone(1, TRUE)
    \/ \E o \in OpenCameraOutcomes : OpenCameraDone(1, o)
    \/ StartCapturingDone(1, TRUE)
    \/ \E t \in DocTypes : toggleScanDocType(t)
    \/ ToastExpires
    \/ handleResize
    \/ ResizeTimerFires
    \/ FacadeResume(1)

SpecGuide == ScanModeInit /\ [][GuideNext]_vars

-----------------------------------------------------------------------------
\* Properties of the session

\* The call c of launch() passed the guard and has not completed.
InFlight(c) == call[c].pc \in {"createResources", "viewInit", "awaitView"}

\* The step completes the accepted call c with a returned value.
Returns(c) == InFlight(c) /\ call'[c].pc = "returned"

\* C1: at most one launch() is in flight on the instance; a launch() called
\* while isCapturing is true throws "Capture session already in progress",
\* touches nothing of the running session, and is never run later.
C1_SingleSessionInFlight ==
    [][/\ \A c, d \in Calls : InFlight(c)' /\ InFlight(d)' => c = d
       /\ \A c \in Calls :
            isCapturing /\ call[c].pc = "idle" /\ call'[c].pc # "idle"
            => /\ call'[c].pc = "rejected"
               /\ last'.error = ErrInProgress
               /\ UNCHANGED <<isCapturing, isInitialized, scannerView, resources,
                              engine, view, promise, launchPc>>
       /\ \A c \in Calls : call[c].pc = "rejected" => call'[c] = call[c]]_vars

C1_Witness ==
    \E c, d \in Calls : InFlight(c) /\ call[d].pc = "rejected"

\* C2: the promise of a session is settled once; a later call of its resolve
\* function changes neither its state nor its value, and the facade returns the
\* status of the first outcome.
C2_SettledOnce ==
    [][/\ \A s \in Calls :
            promise[s].state = "fulfilled"
            => promise'[s].state = "fulfilled" /\ promise'[s].value = promise[s].value
       /\ \A c \in Calls :
            Returns(c) /\ call[c].pc = "awaitView"
            => call'[c].ret.code = promise'[c].value.code]_vars

C2_Witness ==
    \E s \in Calls : promise[s].state = "fulfilled" /\ promise[s].calls >= 2

\* C3 (as the specification states it): an engine failure met while the promise
\* of the session is pending resolves that promise with a Failed result.
C3_FailureResolvesSession ==
    [][\A s \in Calls :
          last'.failure # "none" /\ last'.sess = s /\ promise[s].state = "pending"
          => promise'[s].state = "fulfilled" /\ promise'[s].value.code = RS_FAILED]_vars

\* C4 (as the specification states it): an accepted launch() never rejects, and
\* what it returns carries one of the three status codes.
C4_LaunchNeverRejects ==
    \A c \in Calls :
        /\ call[c].pc # "threw"
        /\ call[c].pc = "returned" => call[c].ret.code \in StatusCodes

\* C5: a live callback with a text line and a parsed item of a recognized code
\* type maps the data, closes the camera and stops capturing, publishes the
\* result and then resolves the session, in this order, with Success and the
\* mapped data; the facade then returns the published result.
C5_LiveSuccess ==
    [][/\ ( /\ last'.handler = "MRZScannerView.handleMRZResult"
            /\ {"T", "P"} \subseteq last'.arg.items
            /\ last'.arg.codeType \in RecognizedCodeTypes )
          => LET s == last'.sess
                 r == MRZResult(RS_SUCCESS, "Success",
                                processMRZData(last'.arg))
             IN /\ last'.effects =
                      <<"capturedResultItems", "originalImageData", "processMRZData",
                        "cameraEnhancer.close", "cvRouter.stopCapturing",
                        "onResultUpdated", "resolve">>
                /\ ~engine'.cameraOpen
                /\ ~engine'.capturing
                /\ resources'.result = r
                /\ promise[s].state = "pending"
                /\ promise'[s].state = "fulfilled"
                /\ promise'[s].value = r
       /\ \A c \in Calls :
            ( /\ Returns(c)
              /\ last.handler = "MRZScannerView.handleMRZResult"
              /\ promise[c].value.code = RS_SUCCESS )
            => call'[c].ret = resources.result /\ call'[c].ret = promise[c].value]_vars

C5_Witness ==
    \E c \in Calls :
        /\ call[c].pc = "awaitView"
        /\ last.handler = "MRZScannerView.handleMRZResult"
        /\ last.sess = c
        /\ promise[c].state = "fulfilled"
        /\ promise[c].value.code = RS_SUCCESS
        /\ promise[c].value.data.documentType = "Passport"
        /\ resources.result = promise[c].value

\* C6: a live callback whose batch holds only the original image resolves
\* nothing, leaves the camera open and capturing, and publishes nothing.
C6_OriginalImageOnlyIgnored ==
    [][( /\ last'.handler = "MRZScannerView.handleMRZResult"
         /\ last'.arg.items = {"O"} )
       => /\ UNCHANGED <<promise, engine, resources>>
          /\ promise'[last'.sess].state = "pending"
          /\ engine'.cameraOpen
          /\ engine'.capturing
          /\ "resolve" \notin {last'.effects[i] : i \in DOMAIN last'.effects}]_vars

C6_Witness ==
    /\ last.handler = "MRZScannerView.handleMRZResult"
    /\ last.arg.items = {"O"}
    /\ last.sess \in Calls
    /\ promise[last.sess].state = "pending"

\* C7: the close button, pressed while the session is pending, closes the
\* camera and stops capturing, then resolves the session as Cancelled; the
\* facade then returns the Cancelled status and no data.
C7_CloseCancels ==
    [][/\ \A s \in Calls :
            ( /\ last'.handler = "MRZScannerView.handleCloseBtn"
              /\ last'.sess = s
              /\ promise[s].state = "pending" )
            => /\ last'.effects =
                     <<"cameraEnhancer.close", "cvRouter.stopCapturing", "resolve">>
               /\ ~engine'.cameraOpen
               /\ ~engine'.capturing
               /\ promise'[s].state = "fulfilled"
               /\ promise'[s].value = StatusOnly(RS_CANCELLED, "Cancelled")
       /\ \A c \in Calls :
            Returns(c) /\ last.handler = "MRZScannerView.handleCloseBtn"
            => /\ call'[c].ret.code = RS_CANCELLED
               /\ call'[c].ret.data = NoData]_vars

C7_Witness ==
    \E c \in Calls :
        /\ call[c].pc = "returned"
        /\ call[c].ret = StatusOnly(RS_CANCELLED, "Cancelled")
        /\ ~engine.cameraOpen

\* C8 (as the specification states it): a resolved result carries data built by
\* processMRZData exactly when its status is Success.
C8_DataIffSuccess ==
    \A s \in Calls :
        promise[s].state = "fulfilled"
        => (promise[s].value.data.kind = "mrz" <=> promise[s].value.code = RS_SUCCESS)

\* C9: a step that nulls a shared resource is the end of an accepted launch()
\* (its finally block), and no session promise is pending when it runs; no
\* handler of the view nulls a resource.
C9_DisposeAfterTerminal ==
    [][( \/ resources.cameraView # 0 /\ resources'.cameraView = 0
         \/ resources.cameraEnhancer # 0 /\ resources'.cameraEnhancer = 0
         \/ resources.cvRouter # 0 /\ resources'.cvRouter = 0 )
       => /\ \E c \in Calls : InFlight(c) /\ call'[c].pc \in {"returned", "threw"}
          /\ last'.effects[Len(last'.effects)] = "dispose"
          /\ \A s \in Calls : promise[s].state # "pending"]_vars

C9_Witness ==
    \E c \in Calls :
        /\ call[c].pc = "returned"
        /\ promise[c].state = "fulfilled"
        /\ resources.cameraView = 0
        /\ resources.cvRouter = 0
        /\ last.effects = <<"return", "dispose">>

\* C10 (as the specification states it): no handler of the view raises an
\* error for calling a resolver that is not there.
C10_AbsentResolverIsNoOp ==
    last.error # ErrResolverUndefined

\* C11: when the live callback meets an exception while the session is
\* pending (a batch with a text line whose parsed item is missing or of an
\* unrecognized code type makes processMRZData throw), it closes the camera,
\* resolves the session as Failed, and raises no error to its caller.
C11_CallbackExceptionFails ==
    [][\A s \in Calls :
          ( /\ last'.handler = "MRZScannerView.handleMRZResult"
            /\ last'.sess = s
            /\ promise[s].state = "pending"
            /\ Cardinality(last'.arg.items) > 1
            /\ "T" \in last'.arg.items
            /\ ("P" \notin last'.arg.items
                    \/ last'.arg.codeType \notin RecognizedCodeTypes) )
          => /\ ~engine'.cameraOpen
             /\ ~engine'.capturing
             /\ promise'[s].state = "fulfilled"
             /\ promise'[s].value = StatusOnly(RS_FAILED, "Error capturing image")
             /\ last'.error = NoError]_vars

C11_Witness ==
    \E s \in Calls :
        /\ last.handler = "MRZScannerView.handleMRZResult"
        /\ last.sess = s
        /\ last.failure = "processMRZData"
        /\ last.arg.codeType = "MRTD_UNKNOWN"
        /\ promise[s].value = StatusOnly(RS_FAILED, "Error capturing image")
        /\ promise[s].calls = 1
        /\ ~engine.cameraOpen

\* C12: a picked file that is not an image resolves the pending session as
\* Failed, and cvRouter.capture is not called for it.
C12_NotImageFails ==
    [][\A s \in Calls :
          ( /\ upload.pc = "pickFile"
            /\ upload.sess = s
            /\ last'.failure = "notImage"
            /\ promise[s].state = "pending" )
          => /\ promise'[s].state = "fulfilled"
             /\ promise'[s].value = StatusOnly(RS_FAILED, "Error processing uploaded image")
             /\ upload'.pc # "capture"
             /\ "cvRouter.capture" \notin {last'.effects[i] : i \in DOMAIN last'.effects}
             /\ last'.error = NoError]_vars

C12_Witness ==
    \E s \in Calls :
        /\ last.handler = "MRZScannerView.uploadImage"
        /\ last.failure = "notImage"
        /\ last.sess = s
        /\ call[s].pc = "awaitView"
        /\ promise[s].value = StatusOnly(RS_FAILED, "Error processing uploaded image")
        /\ promise[s].calls = 1

\* C13: when the view's initialize() fails, the camera is closed, the launch()
\* that ran it returns a Failed result, the view's initialized flag stays
\* false, no session is started for it, and the finished call is left alone.
C13_InitializeFailureEndsLaunch ==
    [][/\ \A c \in Calls :
            ( /\ call[c].pc = "viewInit"
              /\ call'[c].pc # "viewInit"
              /\ ~view'[c].initialized )
            => /\ ~engine'.cameraOpen
               /\ ~engine'.capturing
               /\ call'[c].pc = "returned"
               /\ call'[c].ret.code = RS_FAILED
               /\ call'[c].ret.data = NoData
               /\ promise'[c].state = "none"
               /\ launchPc'[c] = "none"
               /\ ~isCapturing'
       /\ \A c \in Calls :
            call[c].pc = "returned" /\ ~view[c].initialized
            => /\ call'[c] = call[c]
               /\ view'[c] = view[c]
               /\ promise'[c].state = "none"]_vars

C13_Witness ==
    \E c \in Calls :
        /\ call[c].pc = "returned"
        /\ view[c].exists
        /\ ~view[c].initialized
        /\ call[c].ret.code = RS_FAILED
        /\ last.failure = "initialize"

-----------------------------------------------------------------------------
\* The scan mode manager

\* The document types the manager has enabled
Enabled == {t \in DocTypes : scanModeManager[t]}

\* The step is a call of toggleScanDocType(t)
ToggleStep(t) ==
    /\ last'.handler = "MRZScannerView.toggleScanDocType"
    /\ last'.docType = t
    /\ last' # last \/ ui' # ui \/ scanModeManager' # scanModeManager

\* C14: after initialization from any configuration of valid document types
\* (absent, a single type, an empty array or any array) and after any sequence
\* of toggleScanDocType calls, at least one of TD1, TD2 and Passport is enabled.
C14_SomeTypeEnabled == Enabled # {}

\* The view was initialized from an array naming one type, and a toggle has
\* enabled a second type and another has switched the first one off
C14_Witness ==
    /\ config.mrzFormatType = FormatArray(<<"TD1">>)
    /\ last.handler = "MRZScannerView.toggleScanDocType"
    /\ last.docType = "TD1"
    /\ Enabled = {"TD2"}

\* C15: toggleScanDocType on the only enabled document type is rejected: the
\* enabled map and currentScanMode are left unchanged, the scan guide, the scan
\* region and the selection highlights are not touched, and a warning toast is
\* shown.
C15_LastModeToggleRejected ==
    [][\A t \in DocTypes :
          ToggleStep(t) /\ Enabled = {t} =>
              /\ scanModeManager' = scanModeManager
              /\ currentScanMode' = currentScanMode
              /\ ui'.guide = ui.guide
              /\ ui'.selected = ui.selected
              /\ ui'.highlighted = ui.highlighted
              /\ scanRegion' = scanRegion
              /\ ui'.toast = "At least one mode must be enabled"
              /\ last'.effects = <<"console.warn", "DCEShowToast">>]_vars

\* The only enabled type was toggled: the toast is up and the type is still
\* the only one enabled
C15_Witness ==
    /\ last.handler = "MRZScannerView.toggleScanDocType"
    /\ last.effects = <<"console.warn", "DCEShowToast">>
    /\ Enabled = {last.docType}
    /\ ui.toast = "At least one mode must be enabled"
    /\ ui.guide = GuideOnly(last.docType)

\* The scan mode managers with at least one type enabled
Managers == {m \in [DocTypes -> BOOLEAN] : \E t \in DocTypes : m[t]}

\* The scan mode named after a set of document types
C16_ModeOfSet(S) ==
    CASE S = {"Passport"} -> "Passport"
      [] S = {"TD1"} -> "TD1"
      [] S = {"TD2"} -> "TD2"
      [] S = {"Passport", "TD1"} -> "PassportAndTD1"
      [] S = {"Passport", "TD2"} -> "PassportAndTD2"
      [] S = {"TD1", "TD2"} -> "TD1AndTD2"
      [] S = {"Passport", "TD1", "TD2"} -> "All"
      [] OTHER -> "none"

\* C16: getScanMode maps each of the 7 non-empty subsets of {TD1, TD2, Passport}
\* to a defined scan-mode identifier, distinct subsets give distinct
\* identifiers, and the identifier depends only on the set of enabled types,
\* not on the order in which they were enabled or toggled: whatever the request
\* and the toggles were, the current mode is the one named after the set.
C16_ScanModeOfSet ==
    /\ \A m \in Managers : getScanMode(m) \in ScanModes
    /\ \A m1, m2 \in Managers : m1 # m2 => getScanMode(m1) # getScanMode(m2)
    /\ Cardinality({getScanMode(m) : m \in Managers}) = 7
    /\ currentScanMode = C16_ModeOfSet(Enabled)

\* The request named TD2 before TD1, and TD1 was switched off and on again
C16_Witness ==
    /\ config.mrzFormatType = FormatArray(<<"TD2", "TD1">>)
    /\ last.handler = "MRZScannerView.toggleScanDocType"
    /\ last.docType = "TD1"
    /\ Enabled = {"TD1", "TD2"}
    /\ currentScanMode = "TD1AndTD2"

\* C17: initializeScanModeManager enables all three document types when
\* mrzFormatType is absent or an empty array, and otherwise enables exactly the
\* requested types (a single type or an array of types) and no others.
C17_InitializeFromConfig ==
    [][\A c \in Calls :
          ~view[c].exists /\ view'[c].exists =>
              LET types == config.mrzFormatType.types
                  requested == {types[i] : i \in DOMAIN types}
              IN {t \in DocTypes : scanModeManager'[t]} =
                     IF requested = {} THEN DocTypes ELSE requested]_vars

\* The view was made for a request of two types, Passport and TD2
C17_Witness ==
    /\ config.mrzFormatType = FormatArray(<<"Passport", "TD2">>)
    /\ last.handler = "MRZScanner.initialize"
    /\ view[1].exists
    /\ Enabled = {"Passport", "TD2"}

-----------------------------------------------------------------------------
\* The scan region

\* toggleScanGuide has computed the region for the viewport the window has now
RegionComputed == last.handler = "MRZScannerView.toggleScanGuide"

\* C18: for each of the three document types and every viewport width and
\* height between 100 and 4000 pixels, the scan region computed by
\* calculateScanRegion has a left edge percentage of at least 0 and a right
\* edge percentage of at most 100.
C18_RegionWithinFrame ==
    /\ viewport.width \in 100..4000
    /\ viewport.height \in 100..4000
    =>
    /\ RegionComputed => scanRegion.left >= 0 /\ scanRegion.right <= 100
    /\ \A t \in DocTypes :
          /\ calculateScanRegion(t).left >= 0
          /\ calculateScanRegion(t).right <= 100

\* The TD1 region was computed in a viewport a little wider than high, where
\* the guide sized from the height would be wider than the viewport
C18_Witness ==
    /\ RegionComputed
    /\ last.docType = "TD1"
    /\ viewport = [width |-> 1030, height |-> 1000]
    /\ scanRegion.left = 5
    /\ scanRegion.right = 95

\* C19: in both orientation branches of calculateScanRegion, after the
\* try-one-axis-then-clamp step the guide satisfies both limits at once: its
\* width is at most 90% of the viewport width and its height is at most 75% of
\* (viewport height minus the 80-pixel bottom margin); consequently its top
\* edge is not above the viewport and its bottom edge does not reach into the
\* reserved bottom margin.
C19_GuideWithinLimits ==
    RegionComputed =>
        LET w == viewport.width
            h == viewport.height
            hm == h - bottomMarginPx
            size == GuideSize(last.docType, w, h)
        IN /\ FracAtMost(size.width, Frac(9 * w, 10))
           /\ FracAtMost(size.height, Frac(3 * hm, 4))
           \* topOffset = (hm - actualHeight) / 2 >= 0
           /\ size.height.num <= hm * size.height.den
           \* topOffset + actualHeight = (hm + actualHeight) / 2 <= hm
           /\ hm * size.height.den + size.height.num <= 2 * hm * size.height.den
           /\ scanRegion.top >= 0
           /\ scanRegion.top <= scanRegion.bottom
           /\ scanRegion.left <= scanRegion.right

-----------------------------------------------------------------------------
\* The mapper

\* C20: processMRZData called with a code type other than the six recognized
\* ones throws an unknown-document-type error and returns no record, neither a
\* partial one nor a best-guess one: the handler that called it, live or
\* upload, takes its catch path, and no data reaches the session's result or
\* the shared result.
C20_UnknownCodeTypeThrows ==
    [][/\ \A ct \in CodeTypes \ RecognizedCodeTypes :
             /\ mapDocumentType(ct) = "throw"
             /\ ProcessThrows(Batch({"T", "P"}, ct))
       /\ ( /\ last'.handler \in {"MRZScannerView.handleMRZResult",
                                  "MRZScannerView.uploadImage"}
            /\ {"T", "P"} \subseteq last'.arg.items
            /\ last'.arg.codeType \notin RecognizedCodeTypes )
          => /\ last'.failure = "processMRZData"
             /\ resources'.result = resources.result
             /\ \A s \in Calls :
                   \/ promise'[s].value = promise[s].value
                   \/ /\ promise'[s].value.code = RS_FAILED
                      /\ promise'[s].value.data = NoData]_vars

\* An uploaded image gave a parsed item of an unrecognized code type: the
\* session failed without data
C20_Witness ==
    /\ last.handler = "MRZScannerView.uploadImage"
    /\ last.failure = "processMRZData"
    /\ last.arg = Batch({"O", "T", "P"}, "MRTD_UNKNOWN")
    /\ promise[last.sess].state = "fulfilled"
    /\ promise[last.sess].value.code = RS_FAILED
    /\ promise[last.sess].value.data = NoData
    /\ resources.result = NullResult

-----------------------------------------------------------------------------
\* The fields of the mapped data

\* The live callback has mapped the captured result last.arg and resolved the
\* session with the data
Mapped ==
    /\ last.handler = "MRZScannerView.handleMRZResult"
    /\ last.failure = "none"
    /\ promise[1].value.code = RS_SUCCESS

Range(seq) == {seq[i] : i \in DOMAIN seq}

\* The invalidFields of the data the session was resolved with, and of the data
\* the earlier version of the mapper gives for the same captured result
Flagged == Range(promise[1].value.data.invalidFields)
FlaggedEarlier == Range(processMRZDataEarlier(last.arg).invalidFields)

\* C21 (as the specification states it): given the primary document-number
\* field (documentCode) failing validation and longDocumentNumber passing it,
\* with the fallback value accepted as documentNumber, the invalidFields
\* returned by processMRZData does not contain DocumentNumber.
C21_FallbackNotFlagged ==
    ( /\ Mapped
      /\ documentNumberField(last.arg.codeType) = "documentCode"
      /\ "documentCode" \in last.arg.failed
      /\ "longDocumentNumber" \notin last.arg.failed
      /\ promise[1].value.data.documentNumber = "longDocumentNumber" )
    => "documentNumber" \notin Flagged

\* C22: given both the primary document-number field of the detected document
\* type and longDocumentNumber failing validation, the invalidFields returned
\* by processMRZData contains DocumentNumber (in either version of the mapper).
C22_BothFailedFlagged ==
    /\ ( /\ Mapped
         /\ documentNumberField(last.arg.codeType) \in last.arg.failed
         /\ "longDocumentNumber" \in last.arg.failed )
       => "documentNumber" \in Flagged
    /\ ( /\ Mapped
         /\ documentNumberFieldEarlier(last.arg.codeType) \in last.arg.failed
         /\ "longDocumentNumber" \in last.arg.failed )
       => "documentNumber" \in FlaggedEarlier

\* A TD1 item whose documentCode and longDocumentNumber both failed
C22_Witness ==
    /\ Mapped
    /\ last.arg.codeType = "MRTD_TD1_ID"
    /\ last.arg.failed = {"documentCode", "longDocumentNumber"}
    /\ promise[1].value.data.invalidFields = <<"documentNumber">>

\* C23: DateOfBirth is in invalidFields if and only if at least one of
\* birthYear, birthMonth, birthDay has validation status Failed, and
\* DateOfExpiry is in invalidFields if and only if at least one of expiryYear,
\* expiryMonth, expiryDay has status Failed; the flag always names the whole
\* date, never a sub-part (in either version of the mapper).
C23_DateFlags ==
    Mapped =>
        LET birthFields == {"birthYear", "birthMonth", "birthDay"}
            expiryFields == {"expiryYear", "expiryMonth", "expiryDay"}
            birthFailed == last.arg.failed \cap birthFields
            expiryFailed == last.arg.failed \cap expiryFields
        IN \A flagged \in {Flagged, FlaggedEarlier} :
              /\ "dateOfBirth" \in flagged <=> birthFailed # {}
              /\ "dateOfExpiry" \in flagged <=> expiryFailed # {}
              /\ flagged \cap (birthFields \cup expiryFields) = {}

\* The month of birth and the day of expiry failed: both dates are flagged
C23_Witness ==
    /\ Mapped
    /\ last.arg.failed = {"birthMonth", "expiryDay"}
    /\ promise[1].value.data.invalidFields = <<"dateOfBirth", "dateOfExpiry">>

-----------------------------------------------------------------------------
\* The age

\* C24: processMRZData computes age as the current year minus the four-digit
\* birth year, minus 1 exactly when the current month/day is before the birth
\* month/day (nothing is subtracted on the birthday itself); the four-digit
\* birth year is 1900 + yy when the two-digit year yy is greater than the
\* current year modulo 100, and 2000 + yy otherwise (in either version of the
\* mapper).
C24_Age ==
    Mapped =>
        LET yy == last.arg.birth.year[1] * 10 + last.arg.birth.year[2]
            month == last.arg.birth.month[1] * 10 + last.arg.birth.month[2]
            day == last.arg.birth.day[1] * 10 + last.arg.birth.day[2]
            birthYear == IF yy > now.year % 100 THEN 1900 + yy ELSE 2000 + yy
            before == now.month < month \/ (now.month = month /\ now.day < day)
            age == now.year - birthYear - (IF before THEN 1 ELSE 0)
        IN /\ promise[1].value.data.age = age
           /\ processMRZDataEarlier(last.arg).age = age
           /\ processMRZDataEarlier(last.arg).dateOfBirth.year = birthYear

\* A passport read on the holder's 34th birthday
C24_Witness ==
    /\ Mapped
    /\ now = MRZDate(2022, 6, 11)
    /\ last.arg.birth = DateFields(88, 6, 11)
    /\ promise[1].value.data.age = 34

-----------------------------------------------------------------------------
\* Invalid fields

\* The field of the data that a failed field of the parsed item belongs to, for
\* an item of code type ct
C25_FlagOf(f, ct) ==
    CASE f \in {"birthYear", "birthMonth", "birthDay"} -> "dateOfBirth"
      [] f \in {"expiryYear", "expiryMonth", "expiryDay"} -> "dateOfExpiry"
      [] f = "primaryIdentifier" -> "lastName"
      [] f = "secondaryIdentifier" -> "firstName"
      [] f \in {"sex", "issuingState", "nationality"} -> f
      [] f = "longDocumentNumber" -> "documentNumber"
      [] f = "passportNumber" /\ ct = "MRTD_TD3_PASSPORT" -> "documentNumber"
      [] f = "documentCode" /\ ct # "MRTD_TD3_PASSPORT" -> "documentNumber"
      [] OTHER -> "none"

\* C25: invalid fields are non-fatal: a live callback whose parsed result has a
\* recognized code type resolves the session with status Success whatever
\* subset of its fields failed validation, and the failed fields are only
\* recorded in invalidFields of the returned data.
C25_InvalidFieldsNonFatal ==
    [][( /\ last'.handler = "MRZScannerView.handleMRZResult"
         /\ promise[1].state = "pending"
         /\ {"T", "P"} \subseteq last'.arg.items
         /\ last'.arg.codeType \in RecognizedCodeTypes )
       => LET b == last'.arg
              data == promise'[1].value.data
          IN /\ promise'[1].state = "fulfilled"
             /\ promise'[1].value.code = RS_SUCCESS
             /\ last'.error = NoError
             /\ last'.failure = "none"
             /\ data.kind = "mrz"
             /\ Range(data.invalidFields) =
                    {C25_FlagOf(f, b.codeType) : f \in b.failed} \ {"none"}
             /\ [data EXCEPT !.invalidFields = <<>>] =
                    [processMRZData([b EXCEPT !.failed = {}]) EXCEPT !.invalidFields = <<>>]
      ]_vars

\* A passport whose day of birth, passport number and sex failed validation
\* was returned with Success
C25_Witness ==
    /\ Mapped
    /\ last.arg.codeType = "MRTD_TD3_PASSPORT"
    /\ last.arg.failed = {"birthDay", "passportNumber", "sex"}
    /\ promise[1].state = "fulfilled"
    /\ promise[1].value.data.invalidFields = <<"dateOfBirth", "documentNumber", "sex">>

-----------------------------------------------------------------------------
\* Properties of the timers and of the repeated calls

\* C26: the resize timer is the only timer of the view and closeCamera clears
\* it, so no timer the view scheduled is pending once the camera is closed.
C26_NoTimerAfterClose ==
    ~ engine.cameraOpen => (~ engine.resizeTimer /\ engine.toastTimer = 0)

\* C27: a call of initialize() of the view or of the facade after initialize()
\* has succeeded makes no engine call and changes no state, and an
\* initialized view has exactly one result receiver on its router.
C27_InitializeIdempotent ==
    /\ [][\/ last'.handler = "MRZScanner.initialize" /\ isInitialized
          \/ /\ last'.handler = "MRZScannerView.initialize"
             /\ \E s \in Calls : last'.sess = s /\ view[s].initialized
            => /\ last'.effects = <<>>
               /\ last'.error = NoError
               /\ UNCHANGED <<uiVars, sessionVars, now>>]_vars
    /\ [](/\ engine.receivers <= 1
          /\ \A s \in Calls :
                view[s].initialized /\ resources.cvRouter = s => engine.receivers = 1)

C27_Witness ==
    /\ last.handler = "MRZScannerView.initialize"
    /\ last.effects = <<>>
    /\ view[last.sess].initialized
    /\ resources.cvRouter = last.sess
    /\ engine.receivers = 1

C29_Configured(mode) ==
    TemplateName(mode, IF config.userTemplateNames[mode] = "custom"
                       THEN "custom" ELSE "default")

\* C29: a name is configured for each of the 7 scan modes, and the name
\* launch() gives to startCapturing and uploadImage gives to capture is the
\* one of the scan mode current at the call.
C29_TemplateOfCurrentMode ==
    /\ [](/\ DOMAIN config.utilizedTemplateNames = ScanModes
          /\ Cardinality(ScanModes) = 7
          /\ \A mode \in ScanModes :
                config.utilizedTemplateNames[mode] = C29_Configured(mode))
    /\ [][\/ \E s \in Calls : launchPc[s] = "openCamera" /\ launchPc'[s] = "startCapturing"
          \/ upload.pc = "pickFile" /\ upload'.pc = "capture"
          => engine'.templateName = C29_Configured(currentScanMode)]_vars

C29_Witness ==
    /\ upload.pc = "capture"
    /\ engine.templateName = TemplateName(currentScanMode, "custom")
    /\ currentScanMode # getScanMode(initializeScanModeManager(config.mrzFormatType))

\* C30: an accepted toggleScanDocType(t) flips the enabled flag of t and of no
\* other type, and sets currentScanMode to getScanMode() of the new flags; so
\* currentScanMode is always the scan mode of the flags.
C30_ToggleFlipsOne ==
    /\ [][\A t \in DocTypes :
            ToggleStep(t) /\ Enabled # {t} =>
                /\ scanModeManager'[t] = ~ scanModeManager[t]
                /\ \A u \in DocTypes \ {t} : scanModeManager'[u] = scanModeManager[u]
                /\ currentScanMode' = getScanMode(scanModeManager')]_vars
    /\ [](currentScanMode = getScanMode(scanModeManager))

\* Of two enabled types one was toggled off: the mode is the one of the other
C30_Witness ==
    /\ last.handler = "MRZScannerView.toggleScanDocType"
    /\ last.effects # <<"console.warn", "DCEShowToast">>
    /\ config.mrzFormatType = FormatArray(<<"Passport", "TD1">>)
    /\ ~ scanModeManager[last.docType]
    /\ Cardinality(Enabled) = 1
    /\ currentScanMode = getScanMode(scanModeManager)
    /\ currentScanMode \in {"Passport", "TD1"}

-----------------------------------------------------------------------------
\* Properties of the end of a session

\* C31: once dispose() has nulled the shared resources, no continuation of
\* the session's view dereferences a nulled resource.
C31_NoNullDereference == last.error # ErrNullResource

\* C32: launch() calls cvRouter.startCapturing only after the camera was
\* opened and while the session is pending: not after openCamera failed and
\* resolved the session with Failed.
C32_StartCapturingAfterOpen ==
    [][\A s \in Calls :
          launchPc[s] = "openCamera" /\ launchPc'[s] = "startCapturing" =>
              /\ engine'.cameraOpen
              /\ promise'[s].state = "pending"]_vars

\* C33: while the router is capturing, the template it was started with is
\* the one configured for currentScanMode, also after a document type was
\* toggled during the capture.
C33_CapturingTemplateCurrent ==
    engine.capturing => engine.templateName = C29_Configured(currentScanMode)

\* C34: a launch() rejected by the isCapturing guard has no effect on the
\* session in flight: isCapturing stays true, dispose() is not run, and the
\* resources, the scanner view and the pending promise are unchanged.
C34_RejectedLaunchNoEffect ==
    [][\A c \in Calls :
          isCapturing /\ call[c].pc = "idle" /\ call'[c].pc # "idle" =>
              /\ isCapturing'
              /\ "dispose" \notin Range(last'.effects)
              /\ resources' = resources
              /\ scannerView' = scannerView
              /\ promise' = promise
              /\ \A d \in Calls \ {c} : call'[d] = call[d]
              /\ UNCHANGED <<isInitialized, engine, view, launchPc, upload, uiVars>>]_vars

\* A launch was rejected while the first session waits with its camera open
C34_Witness ==
    \E c, d \in Calls :
        /\ call[d].pc = "rejected"
        /\ last.error = ErrInProgress
        /\ call[c].pc = "awaitView"
        /\ promise[c].state = "pending"
        /\ isCapturing
        /\ scannerView = c
        /\ resources.cameraView = c
        /\ engine.cameraOpen

\* C35: when an accepted launch() completes, isCapturing and isInitialized
\* are false and the camera view, the camera enhancer, the router, the result
\* and onResultUpdated are null; the next launch() is accepted, finds nothing
\* left of the session before, and makes its own resources and scanner view.
C35_CompletedLaunchLeavesNothing ==
    [][\A c \in Calls :
          /\ InFlight(c) /\ call'[c].pc \in {"returned", "threw"} =>
                /\ ~ isCapturing'
                /\ ~ isInitialized'
                /\ resources' = DisposedResources
                /\ scannerView' = 0
          /\ /\ call[c].pc = "idle" /\ call'[c].pc # "idle"
             /\ \A d \in Calls : call[d].pc \in {"idle", "returned", "threw", "rejected"}
             => /\ call'[c].pc # "rejected"
                /\ ~ isInitialized
                /\ resources = DisposedResources
                /\ scannerView = 0
          /\ call[c].pc = "createResources" /\ call'[c].pc = "viewInit" =>
                /\ ~ view[c].exists /\ view'[c] = NewView
                /\ scannerView' = c
                /\ resources'.cameraView = c
                /\ resources'.cameraEnhancer = c
                /\ resources'.cvRouter = c]_vars

\* The second launch() has made its resources and its view after the first
\* one returned
C35_Witness ==
    /\ call[1].pc = "returned"
    /\ call[2].pc = "viewInit"
    /\ scannerView = 2
    /\ resources.cvRouter = 2
    /\ view[2] = NewView

-----------------------------------------------------------------------------
\* Properties of the scan guides

\* The guides a user can see: those of the camera view in the container whose
\* display is not "none"
C36_Visible ==
    IF engine.uiAttached THEN {t \in DocTypes : ui.guide[t] # "none"} ELSE {}

\* The enabled type that comes first in the order Passport, TD1, TD2
C36_Preferred ==
    IF scanModeManager["Passport"] THEN "Passport"
    ELSE IF scanModeManager["TD1"] THEN "TD1" ELSE "TD2"

-----------------------------------------------------------------------------
\* Properties of the two versions of the mapper

\* C37: the invalidFields of processMRZData holds each field identifier at
\* most once, whatever fields and date parts failed.
C37_InvalidFieldsIsSet ==
    Mapped =>
        Len(promise[1].value.data.invalidFields) = Cardinality(Flagged)

\* C38: for each recognized code type the two versions of processMRZData
\* take the passport's own field passportNumber in the same case, the code
\* type MRTD_TD3_PASSPORT alone; otherwise the later one takes documentCode
\* and the earlier one documentNumber, and both give the same document type.
C38_SamePassportField ==
    Mapped =>
        LET codeType == last.arg.codeType
        IN /\ codeType \in RecognizedCodeTypes
           /\ documentNumberField(codeType) = "passportNumber"
                  <=> documentNumberFieldEarlier(codeType) = "passportNumber"
           /\ documentNumberField(codeType) = "passportNumber"
                  <=> codeType = "MRTD_TD3_PASSPORT"
           /\ codeType # "MRTD_TD3_PASSPORT" =>
                  /\ documentNumberField(codeType) = "documentCode"
                  /\ documentNumberFieldEarlier(codeType) = "documentNumber"
           /\ promise[1].value.data.documentType
                  = processMRZDataEarlier(last.arg).documentType
           /\ promise[1].value.data.documentNumber = "passportNumber"
                  <=> processMRZDataEarlier(last.arg).documentNumber = "passportNumber"

\* A visa of the passport format: both versions read the generic field
C38_Witness ==
    /\ Mapped
    /\ last.arg.codeType = "MRTD_TD3_VISA"
    /\ promise[1].value.data.documentType = "Passport"
    /\ promise[1].value.data.documentNumber = "documentCode"
    /\ processMRZDataEarlier(last.arg).documentNumber = "documentNumber"

\* C39: the earlier version of the mapper resolves the two-digit year yy of
\* dateOfExpiry as it does the one of dateOfBirth: 1900 + yy where yy is
\* greater than the current year modulo 100, 2000 + yy otherwise; an expiry
\* year after the current two-digit year becomes a year of the 1900s.
C39_ExpiryPivot ==
    Mapped =>
        LET Resolved(yy) == IF yy > now.year % 100 THEN 1900 + yy ELSE 2000 + yy
            expiryYear == last.arg.expiry.year[1] * 10 + last.arg.expiry.year[2]
            birthYear == last.arg.birth.year[1] * 10 + last.arg.birth.year[2]
            data == processMRZDataEarlier(last.arg)
        IN /\ data.dateOfExpiry.year = Resolved(expiryYear)
           /\ data.dateOfBirth.year = Resolved(birthYear)
           /\ expiryYear > now.year % 100 => data.dateOfExpiry.year \in 1900..1999
           /\ expiryYear <= now.year % 100 => data.dateOfExpiry.year \in 2000..2099

\* A passport read in 2022 that expires in 2030: the year resolves to 1930
C39_Witness ==
    /\ Mapped
    /\ now.year = 2022
    /\ last.arg.expiry.year = <<3, 0>>
    /\ processMRZDataEarlier(last.arg).dateOfExpiry.year = 1930

\* C40: for every two-digit year, month and day of birth and every date of
\* this century, the age processMRZData computes is between -1 and 99; it is
\* -1 only where the year of birth is the current two-digit year and the
\* birthday is still to come; the later version has Age among the invalid
\* fields exactly where the age is below 1.
C40_AgeRange ==
    Mapped =>
        LET data == promise[1].value.data
            yy == last.arg.birth.year[1] * 10 + last.arg.birth.year[2]
            month == last.arg.birth.month[1] * 10 + last.arg.birth.month[2]
            day == last.arg.birth.day[1] * 10 + last.arg.birth.day[2]
            toCome == now.month < month \/ (now.month = month /\ now.day < day)
        IN /\ data.age \in -1..99
           /\ processMRZDataEarlier(last.arg).age \in -1..99
           /\ data.age = -1 => yy = now.year % 100 /\ toCome
           /\ processMRZDataEarlier(last.arg).age = -1 => yy = now.year % 100 /\ toCome
           /\ "age" \in Flagged <=> data.age < 1
           /\ "age" \notin FlaggedEarlier

\* A passport read a month before its holder is born, in the same year
C40_Witness ==
    /\ Mapped
    /\ now = MRZDate(2022, 11, 1)
    /\ last.arg.birth = DateFields(22, 12, 1)
    /\ promise[1].value.data.age = -1
    /\ "age" \in Flagged

====
